---- MODULE Spec2Model ----
(***************************************************************************)
(* Verification model of the sui-cli credential vault (wallet.rs) and of   *)
(* the interactive session set-up in main.rs (run_cli).                    *)
(*                                                                         *)
(* Texts are sequences of one-character strings, byte strings are          *)
(* sequences of 0..255.  The cryptographic primitives (PBKDF2, AES-GCM,    *)
(* ed25519, blake2b) are symbolic: a derived key is a term over the        *)
(* password and the salt, a ciphertext is a term over key, nonce and       *)
(* plaintext, and opening a ciphertext succeeds only under the same key    *)
(* and nonce.                                                              *)
(***************************************************************************)
EXTENDS Integers, Sequences, FiniteSets, TLC

\* ------------------------------------------------------------------------
\* Results (anyhow::Result): a value or an error message.
\* ------------------------------------------------------------------------
Ok(v) == [ok |-> TRUE, val |-> v, err |-> ""]

Err(e) == [ok |-> FALSE, val |-> <<>>, err |-> e]

Rep(c, n) == [i \in 1..n |-> c]

\* ------------------------------------------------------------------------
\* Text and byte conversions.
\* ------------------------------------------------------------------------
\* The characters texts are made of: ASCII digits and letters.
Ascii == <<"0", "1", "2", "3", "4", "5", "6", "7", "8", "9", "A", "B", "C",
          "D", "E", "F", "G", "H", "I", "J", "K", "L", "M", "N", "O", "P",
          "Q", "R", "S", "T", "U", "V", "W", "X", "Y", "Z", "a", "b", "c",
          "d", "e", "f", "g", "h", "i", "j", "k", "l", "m", "n", "o", "p",
          "q", "r", "s", "t", "u", "v", "w", "x", "y", "z">>

\* UTF-8 code of the i-th character of Ascii.
CodeAt(i) == IF i <= 10 THEN 47 + i ELSE IF i <= 36 THEN 54 + i ELSE 60 + i

\* Index in Ascii of the character with UTF-8 code b, 0 when there is none.
IndexOfCode(b) ==
    IF b >= 48 /\ b <= 57 THEN b - 47
    ELSE IF b >= 65 /\ b <= 90 THEN b - 54
    ELSE IF b >= 97 /\ b <= 122 THEN b - 60
    ELSE 0

\* Index in Ascii of each character.
AsciiIndexOf == [c \in {Ascii[i] : i \in 1..Len(Ascii)} |->
                    CHOOSE i \in 1..Len(Ascii) : Ascii[i] = c]

Code(c) == CodeAt(AsciiIndexOf[c])

\* str::as_bytes on an ASCII text.
as_bytes(s) == [i \in 1..Len(s) |-> Code(s[i])]

\* String::from_utf8; a byte that is no character of Ascii is rejected.
from_utf8(b) ==
    IF \A i \in 1..Len(b) : IndexOfCode(b[i]) # 0
    THEN Ok([i \in 1..Len(b) |-> Ascii[IndexOfCode(b[i])]])
    ELSE Err("Failed to convert decrypted bytes to string")

HexDigits == <<"0", "1", "2", "3", "4", "5", "6", "7",
               "8", "9", "a", "b", "c", "d", "e", "f">>

\* Value of one hex digit (either case), -1 when the character is not a
\* hex digit.
HexVal(c) ==
    IF AsciiIndexOf[c] <= 10 THEN AsciiIndexOf[c] - 1
    ELSE IF AsciiIndexOf[c] >= 11 /\ AsciiIndexOf[c] <= 16
    THEN AsciiIndexOf[c] - 1
    ELSE IF AsciiIndexOf[c] >= 37 /\ AsciiIndexOf[c] <= 42
    THEN AsciiIndexOf[c] - 27
    ELSE -1

\* hex::encode: two lowercase digits per byte, high nibble first.
HexEncode(b) ==
    [i \in 1..(2 * Len(b)) |->
        IF i % 2 = 1 THEN HexDigits[(b[(i + 1) \div 2] \div 16) + 1]
                     ELSE HexDigits[(b[i \div 2] % 16) + 1]]

\* hex::decode: fails on odd length or on a non-hex character.
HexDecode(s) ==
    IF Len(s) % 2 # 0 \/ \E i \in 1..Len(s) : HexVal(s[i]) = -1
    THEN Err("hex")
    ELSE Ok([i \in 1..(Len(s) \div 2) |->
                HexVal(s[2 * i - 1]) * 16 + HexVal(s[2 * i])])

starts_with(s, p) == Len(s) >= Len(p) /\ SubSeq(s, 1, Len(p)) = p

\* str::trim_start_matches("0x"): strips the prefix as often as it occurs.
RECURSIVE trim_start_matches_0x(_)
trim_start_matches_0x(s) ==
    IF starts_with(s, <<"0", "x">>)
    THEN trim_start_matches_0x(SubSeq(s, 3, Len(s)))
    ELSE s

\* ------------------------------------------------------------------------
\* bech32 (crate bech32): decode and from_base32, as the library defines
\* them.
\* ------------------------------------------------------------------------
Bech32Charset == <<"q", "p", "z", "r", "y", "9", "x", "8",
                   "g", "f", "2", "t", "v", "d", "w", "0",
                   "s", "3", "j", "n", "5", "4", "k", "h",
                   "c", "e", "6", "m", "u", "a", "7", "l">>

Bech32Gen == <<996825010, 642813549, 513874426, 1027748829, 705979059>>

IsUpper(c) == AsciiIndexOf[c] > 10 /\ AsciiIndexOf[c] <= 36

IsLower(c) == AsciiIndexOf[c] > 36

ToLower(c) == IF IsUpper(c) THEN Ascii[AsciiIndexOf[c] + 26] ELSE c

RECURSIVE Xor(_, _)
Xor(a, b) ==
    IF a = 0 THEN b
    ELSE IF b = 0 THEN a
    ELSE (((a % 2) + (b % 2)) % 2) + 2 * Xor(a \div 2, b \div 2)

RECURSIVE Pow2(_)
Pow2(n) == IF n = 0 THEN 1 ELSE 2 * Pow2(n - 1)

RECURSIVE PolyGen(_, _, _)
PolyGen(chk, b, i) ==
    IF i > 5 \/ b = 0 THEN chk
    ELSE PolyGen(IF (b \div Pow2(i - 1)) % 2 = 1
                 THEN Xor(chk, Bech32Gen[i]) ELSE chk, b, i + 1)

\* One round of polymod on the value x.
PolyStep(chk, x) ==
    PolyGen(Xor((chk % 33554432) * 32, x), chk \div 33554432, 1)

\* The rounds on v[lo..hi] in order, the range split in halves; chk is a
\* u32 that stays below 2^30.
RECURSIVE PolymodRange(_, _, _, _)
PolymodRange(chk, v, lo, hi) ==
    IF lo > hi \/ chk >= 1073741824 THEN chk
    ELSE IF lo = hi THEN PolyStep(chk, v[lo])
    ELSE PolymodRange(PolymodRange(chk, v, lo, (lo + hi) \div 2),
                      v, ((lo + hi) \div 2) + 1, hi)

Polymod(v) == PolymodRange(1, v, 1, Len(v))

HrpExpand(hrp) ==
    [i \in 1..Len(hrp) |-> Code(hrp[i]) \div 32] \o <<0>> \o
    [i \in 1..Len(hrp) |-> Code(hrp[i]) % 32]

\* Position of the last "1" of s, 0 when there is none.
LastSep(s) ==
    IF \E i \in 1..Len(s) : s[i] = "1"
    THEN CHOOSE i \in 1..Len(s) :
            s[i] = "1" /\ \A j \in (i + 1)..Len(s) : s[j] # "1"
    ELSE 0

\* bech32::decode: Ok(<<hrp, data without checksum>>) or an error; the
\* checksum is 1 (Bech32) or 0x2bc830a3 (Bech32m).
Bech32Decode(s) ==
    LET sep == LastSep(s)
        hrp == [i \in 1..(sep - 1) |-> ToLower(s[i])]
        rest == [i \in 1..(Len(s) - sep) |-> ToLower(s[sep + i])]
        InSet(c) == \E k \in 1..32 : Bech32Charset[k] = c
        val(c) == (CHOOSE k \in 1..32 : Bech32Charset[k] = c) - 1
    IN  IF sep = 0 THEN Err("missing separator")
        ELSE IF sep = 1 \/ Len(s) - sep < 6 THEN Err("invalid length")
        ELSE IF (\E i \in 1..Len(s) : IsUpper(s[i])) /\
                (\E i \in 1..Len(s) : IsLower(s[i]))
             THEN Err("mixed case")
        ELSE IF \E i \in 1..Len(rest) : ~InSet(rest[i])
             THEN Err("invalid character")
        ELSE LET data == [i \in 1..Len(rest) |-> val(rest[i])]
                 chk  == Polymod(HrpExpand(hrp) \o data)
             IN  IF chk = 1 \/ chk = 734539939
                 THEN Ok(<<hrp, SubSeq(data, 1, Len(data) - 6)>>)
                 ELSE Err("invalid checksum")

\* Vec::<u8>::from_base32 (convert_bits 5 -> 8 without padding): the
\* 5-bit values form one bit stream, cut into bytes; the bits left over
\* must be fewer than 5 and all zero.
StreamBit(data, j) == (data[(j \div 5) + 1] \div Pow2(4 - (j % 5))) % 2

from_base32(data) ==
    LET nbits  == 5 * Len(data)
        nbytes == nbits \div 8
        byte(k) == 128 * StreamBit(data, 8 * (k - 1))
                   + 64 * StreamBit(data, 8 * (k - 1) + 1)
                   + 32 * StreamBit(data, 8 * (k - 1) + 2)
                   + 16 * StreamBit(data, 8 * (k - 1) + 3)
                   + 8 * StreamBit(data, 8 * (k - 1) + 4)
                   + 4 * StreamBit(data, 8 * (k - 1) + 5)
                   + 2 * StreamBit(data, 8 * (k - 1) + 6)
                   + StreamBit(data, 8 * (k - 1) + 7)
    IN  IF nbits % 8 >= 5
           \/ \E j \in (8 * nbytes)..(nbits - 1) : StreamBit(data, j) = 1
        THEN Err("invalid padding")
        ELSE Ok([k \in 1..nbytes |-> byte(k)])

\* ------------------------------------------------------------------------
\* wallet.rs: key derivation.
\* ------------------------------------------------------------------------
KEY_ITERATIONS == 100000

SECRET_KEY_LENGTH == 32

ED25519_FLAG == 0

SuiPrivKey == <<"s", "u", "i", "p", "r", "i", "v", "k", "e", "y">>

\* derive_key that leaves the password out of the derivation.
derive_keyNoPassword(password, salt) ==
    [pbkdf2 |-> "", salt |-> salt, iter |-> KEY_ITERATIONS]

\* derive_key: PBKDF2-HMAC-SHA256, a term over its inputs.
derive_key(password, salt) ==
    [pbkdf2 |-> password, salt |-> salt, iter |-> KEY_ITERATIONS]

\* derive_sui_address: the address is the blake2b hash of the scheme flag
\* and the ed25519 public key of the 32 key bytes, a term over those bytes.
derive_sui_address(private_key_str) ==
    LET pk_bytes ==
          IF starts_with(private_key_str, SuiPrivKey)
          THEN LET dec == Bech32Decode(private_key_str)
               IN  IF ~dec.ok THEN Err("Invalid bech32 private key")
                   ELSE LET decoded == from_base32(dec.val[2])
                        IN  IF ~decoded.ok
                            THEN Err("Failed to convert from base32")
                            ELSE IF Len(decoded.val) # 33
                                    \/ decoded.val[1] # 0
                            THEN Err("Invalid sui private key format")
                            ELSE Ok(SubSeq(decoded.val, 2, 33))
          ELSE LET h == HexDecode(trim_start_matches_0x(private_key_str))
               IN  IF h.ok THEN h ELSE Err("Invalid private key hex")
    IN  IF ~pk_bytes.ok THEN pk_bytes
        ELSE IF Len(pk_bytes.val) # SECRET_KEY_LENGTH
             THEN Err("Invalid private key length")
        ELSE Ok([flag |-> ED25519_FLAG, ed25519_pk_of |-> pk_bytes.val])

\* ------------------------------------------------------------------------
\* AES-256-GCM (crate aes_gcm), symbolic: a ciphertext is a term over the
\* key, the nonce and the plaintext; opening it under another key or nonce
\* fails the tag check.
\* ------------------------------------------------------------------------
aes_encrypt(key, nonce, plaintext) ==
    [aes_key |-> key, aes_nonce |-> nonce, body |-> plaintext]

aes_decrypt(key, nonce, ct) ==
    IF ct.aes_key = key /\ ct.aes_nonce = nonce
    THEN Ok(ct.body) ELSE Err("aead::Error")

\* hex::encode / hex::decode of a ciphertext: the hex text of a symbolic
\* byte string is the tagged term.
HexEncodeCt(ct) == [hex_of |-> ct]

HexDecodeCt(h) == Ok(h.hex_of)

\* ------------------------------------------------------------------------
\* Inputs.
\* ------------------------------------------------------------------------
SALT_LEN == 16

NONCE_LEN == 12

\* Outcomes of OsRng.fill_bytes: byte strings of the buffer's length.
Salts == {[i \in 1..SALT_LEN |-> (i * 37) % 256]}

Nonces == {[i \in 1..NONCE_LEN |-> (i * 91 + 5) % 256]}

Names == {"a", "A"}

Passwords == {"p1", "p2"}

KeyHex == Rep("1", 64)

Key0x == <<"0", "x">> \o Rep("A", 32) \o Rep("b", 32)

KeyBech == <<"s", "u", "i", "p", "r", "i", "v", "k", "e", "y", "1", "q",
           "q", "g", "3", "z", "y", "g", "3", "z", "y", "g", "3", "z",
           "y", "g", "3", "z", "y", "g", "3", "z", "y", "g", "3", "z",
           "y", "g", "3", "z", "y", "g", "3", "z", "y", "g", "3", "z",
           "y", "g", "3", "z", "y", "g", "3", "z", "y", "g", "3", "z",
           "y", "g", "3", "z", "4", "5", "r", "f", "l", "c">>

KeyShort == Rep("1", 62)

KeyBadHex == Rep("1", 63) \o <<"g">>

\* The prefix twice, then 64 hex digits.
Key0x0x == <<"0", "x", "0", "x">> \o Rep("c", 64)

\* The prefix in upper case.
Key0X == <<"0", "X">> \o Rep("1", 64)

\* 33 bytes in hex.
KeyLong == Rep("1", 66)

KeyOdd == Rep("1", 63)

KeyEmpty == <<>>

\* bech32 of the scheme byte 0x01 and 32 bytes.
KeyBechFlag1 == <<"s", "u", "i", "p", "r", "i", "v", "k", "e", "y", "1",
                  "q", "y", "3", "5", "2", "g", "6", "9", "y", "d", "z",
                  "j", "x", "3", "f", "r", "g", "5", "3", "5", "2", "g",
                  "6", "9", "y", "d", "z", "j", "x", "3", "f", "r", "g",
                  "5", "3", "5", "2", "g", "6", "9", "y", "d", "z", "j",
                  "x", "3", "f", "r", "g", "5", "3", "5", "2", "q", "g",
                  "6", "a", "y", "m">>

\* bech32 of the scheme byte 0x00 and 31 bytes.
KeyBechShort == <<"s", "u", "i", "p", "r", "i", "v", "k", "e", "y", "1",
                  "q", "q", "3", "j", "x", "g", "e", "r", "y", "v", "3",
                  "j", "x", "g", "e", "r", "y", "v", "3", "j", "x", "g",
                  "e", "r", "y", "v", "3", "j", "x", "g", "e", "r", "y",
                  "v", "3", "j", "x", "g", "e", "r", "y", "v", "3", "j",
                  "x", "g", "e", "r", "y", "v", "3", "s", "v", "6", "l",
                  "h", "p", "2">>

\* KeyBech with its last character changed: the checksum is wrong.
KeyBechBadSum == SubSeq(KeyBech, 1, Len(KeyBech) - 1) \o <<"q">>

KeyInputs == {KeyHex, Key0x, KeyBech, KeyShort, KeyBadHex, Key0x0x, Key0X,
              KeyLong, KeyOdd, KeyEmpty, KeyBechFlag1, KeyBechShort,
              KeyBechBadSum}

\* The keys the vault specification imports.
VaultKeys == {KeyHex, Key0x, KeyBech, KeyBadHex}

\* The names and keys of the specification that checks the order of the
\* records.
OrderNames == {"a", "A", "b"}

OrderKeys == {KeyHex}

\* The <<salt, nonce>> draws of OsRng the vault specification considers.
RngOutcomes == Salts \X Nonces

\* derive_sui_address on each input, computed once.
AddressOf == [k \in KeyInputs |-> derive_sui_address(k)] @@ <<>>

\* Outcomes of the file system calls of save and new.
SaveOutcomes == {"ok", "open_fail", "write_fail"}

OpenOutcomes == {"ok", "open_fail"}

\* ------------------------------------------------------------------------
\* wallet.rs: Wallet, WalletStore and the backing file.
\* ------------------------------------------------------------------------
\* struct Wallet; public_key is an Option: <<>> or <<address>>.
Wallet(name, public_key, encrypted_private_key, salt, nonce) ==
    [name |-> name, public_key |-> public_key,
     encrypted_private_key |-> encrypted_private_key,
     salt |-> salt, nonce |-> nonce]

\* Serialisation that skips public_key.
WalletToJsonSkip(w) ==
    [jname |-> w.name,
     jpublic_key |-> [jnull |-> TRUE],
     jencrypted_private_key |-> w.encrypted_private_key,
     jsalt |-> w.salt, jnonce |-> w.nonce]

\* serde_json of one Wallet: the Option becomes null or the string.
WalletToJson(w) ==
    [jname |-> w.name,
     jpublic_key |-> IF w.public_key = <<>> THEN [jnull |-> TRUE]
                     ELSE [jnull |-> FALSE, jstr |-> w.public_key[1]],
     jencrypted_private_key |-> w.encrypted_private_key,
     jsalt |-> w.salt, jnonce |-> w.nonce]

WalletFromJson(j) ==
    Wallet(j.jname,
           IF j.jpublic_key.jnull THEN <<>> ELSE <<j.jpublic_key.jstr>>,
           j.jencrypted_private_key, j.jsalt, j.jnonce)

\* serde_json::to_writer_pretty(file, self): path is skipped.
to_json(ws) == [jwallets |-> [i \in 1..Len(ws) |-> WalletToJson(ws[i])]]

from_json(doc) ==
    [i \in 1..Len(doc.jwallets) |-> WalletFromJson(doc.jwallets[i])]

\* The backing file: absent, a complete document, or the remains of a
\* write that failed after the file was truncated.
FileAbsent == <<"absent">>

FileJson(doc) == <<"json", doc>>

FilePartial == <<"partial">>

\* The I/O failures one run of the model injects at most.
MaxIoFailures == 1

VARIABLES
    wallets,    \* WalletStore.wallets of the store object
    open,       \* a store object exists (WalletStore::new returned Ok)
    file,       \* the backing file at WalletStore.path
    last,       \* the last call on the store: arguments and result
    creds,      \* <<name, key, password>> of each successful add whose
                \* record is still held
    failedAdds, \* records pushed by an add that returned an error
    ioFailures  \* file system failures so far

\* The history of OsRng and of the removals, kept by the specification of
\* the freshness of salts and nonces; the other specifications leave it.
VARIABLES
    drawn,      \* the byte strings OsRng.fill_bytes has returned
    removed     \* the records remove_wallet has taken out

rngVars == <<drawn, removed>>

vaultVars == <<wallets, open, file, last, creds, failedAdds, ioFailures,
               rngVars>>

\* The interactive run (main.rs: main, run_cli).
VARIABLES
    pc,         \* where main / run_cli stands
    sel,        \* index of selected_wallet, 0 before the selection
    secret,     \* private_key: <<>> or <<decrypted text>>
    child,      \* the agent process: "none", "running", "exited", "killed"
    childEnv,   \* SUI_PRIVATE_KEY in the environment of the child
    guard,      \* a ChildProcessGuard is alive in run_cli
    kills,      \* calls of Child::kill
    retry,      \* loop index i of the connection retry loop
    attempts,   \* calls of AgentServiceClient::connect
    sleeps,     \* sleeps of RETRY_DELAY
    client,     \* client is Some
    result,     \* what run_cli returned, NoResult before
    raw,        \* terminal in raw mode
    alt,        \* terminal on the alternate screen
    exitCode,   \* exit status of the process, -1 while it runs
    log         \* spawn, kill, return, restore, print, grace, exit in order

\* The TUI loop and the channel between the send tasks and the loop
\* (main.rs 253-288).
VARIABLES
    running,    \* running of the while loop
    app,        \* the fields of App the loop and draw_ui use
    chan,       \* the messages in the mpsc channel, oldest first
    tasks,      \* the send tasks spawned so far, in the order of the spawns
    pending,    \* the responses of the agent to the requests still to come
    rcvd        \* the messages try_recv returned, in order

appVars == <<running, app, chan, tasks, pending, rcvd>>

\* The processes and their environments (main.rs 175-182 and
\* sui-mcp/src/main.rs 264-296). An environment is given by its value of
\* SUI_PRIVATE_KEY: <<>> when the variable is not set, <<text>> otherwise.
VARIABLES
    ownEnv,     \* SUI_PRIVATE_KEY in the environment of the CLI process
    childArgs,  \* the arguments of the agent process
    mcp         \* the sui-mcp process: where its main stands, its
                \* environment, its local private_key

\* The commands that are no interactive run: `wallet import` of the CLI
\* (main.rs 69-94) and a call of the transfer_sui tool of sui-mcp
\* (sui/transfer.rs).
VARIABLES
    imp,        \* the import command: where it stands, what was typed
    xfer        \* the call of execute_transfer: its arguments, its locals,
                \* the requests it has sent to the full node

cmdVars == <<imp, xfer>>

procVars == <<ownEnv, childArgs, mcp, cmdVars>>

cliVars == <<pc, sel, secret, child, childEnv, guard, kills, retry, attempts,
             sleeps, client, result, raw, alt, exitCode, log, appVars,
             procVars>>

\* A call and what it returned; key is the private_key_str of an add (<<>>
\* for the other calls), pw is the password of a decrypt or remove,
\* pos the index at which the call found the name (0: not found), wrote:
\* save was called.
Call(op, name, key, pw, pos, res, wrote) ==
    [op |-> op, name |-> name, key |-> key, pw |-> pw, pos |-> pos,
     res |-> res, wrote |-> wrote]

\* A name check that looks at the first record only.
HasNameFirst(ws, name) == Len(ws) > 0 /\ ws[1].name = name

HasName(ws, name) == \E i \in 1..Len(ws) : ws[i].name = name

\* WalletStore::save: <<result, file afterwards>>.
save(ws, f, io) ==
    IF io = "open_fail"
    THEN <<Err("Failed to open wallet file for writing"), f>>
    ELSE IF io = "write_fail"
    THEN <<Err("Failed to serialize and write wallet data"), FilePartial>>
    ELSE <<Ok(<<>>), FileJson(to_json(ws))>>

\* WalletStore::new: the store read from the file, or an error.
new(f, io) ==
    IF f = FileAbsent THEN Ok(<<>>)
    ELSE IF io = "open_fail" THEN Err("Failed to open wallet file")
    ELSE IF f = FilePartial THEN Err("Failed to deserialize wallet file")
    ELSE Ok(from_json(f[2]))

\* Index of the first record called name (Iterator::find / position).
Position(ws, name) ==
    CHOOSE i \in 1..Len(ws) :
        ws[i].name = name /\ \A j \in 1..(i - 1) : ws[j].name # name

Found(ws, name) == IF HasName(ws, name) THEN Position(ws, name) ELSE 0

\* wallet.rs 129-140: the decoded fields of the record opened under the
\* key derived from the password.
DecryptRecord(salt, nonce, enc, password) ==
    IF ~salt.ok THEN Err("Failed to decode salt")
    ELSE IF ~nonce.ok THEN Err("Failed to decode nonce")
    ELSE IF ~enc.ok THEN Err("Failed to decode private key")
    ELSE IF ~aes_decrypt(derive_key(password, salt.val),
                         nonce.val, enc.val).ok
    THEN Err("Invalid password")
    ELSE from_utf8(enc.val.body)

\* A decrypt that reports an absent name as a wrong password.
decrypt_private_keyNoLookup(ws, name, password) ==
    IF ~HasName(ws, name) THEN Err("Invalid password")
    ELSE DecryptRecord(HexDecode(ws[Position(ws, name)].salt),
                       HexDecode(ws[Position(ws, name)].nonce),
                       HexDecodeCt(ws[Position(ws, name)]
                                       .encrypted_private_key),
                       password)

\* WalletStore::decrypt_private_key.
decrypt_private_key(ws, name, password) ==
    IF ~HasName(ws, name) THEN Err("Wallet not found")
    ELSE DecryptRecord(HexDecode(ws[Position(ws, name)].salt),
                       HexDecode(ws[Position(ws, name)].nonce),
                       HexDecodeCt(ws[Position(ws, name)]
                                       .encrypted_private_key),
                       password)

\* A record whose salt and nonce fields are stored crosswise.
NewWalletSwapped(name, private_key_str, password, salt, nonce_bytes) ==
    Wallet(name,
           <<AddressOf[private_key_str].val>>,
           HexEncodeCt(aes_encrypt(derive_key(password, salt), nonce_bytes,
                                   as_bytes(private_key_str))),
           HexEncode(nonce_bytes), HexEncode(salt))

\* The record add_wallet builds (wallet.rs 72-92).
NewWallet(name, private_key_str, password, salt, nonce_bytes) ==
    Wallet(name,
           <<AddressOf[private_key_str].val>>,
           HexEncodeCt(aes_encrypt(derive_key(password, salt), nonce_bytes,
                                   as_bytes(private_key_str))),
           HexEncode(salt), HexEncode(nonce_bytes))

\* wallet.rs 94-95 and 153-154: the updated vector, then save.
PushAndSave(updated, f, io) == <<save(updated, f, io)[1], updated,
                               save(updated, f, io)[2], TRUE>>

\* add_wallet without the check of the name.
add_walletNoCheck(ws, f, name, private_key_str, password, salt, nonce_bytes, io) ==
    IF ~AddressOf[private_key_str].ok
    THEN <<Err(AddressOf[private_key_str].err), ws, f, FALSE>>
    ELSE PushAndSave(Append(ws, NewWallet(name, private_key_str, password,
                                          salt, nonce_bytes)), f, io)

\* WalletStore::add_wallet: <<result, wallets, file, save was called>>.
add_wallet(ws, f, name, private_key_str, password, salt, nonce_bytes, io) ==
    IF HasName(ws, name)
    THEN <<Err("Wallet with name already exists"), ws, f, FALSE>>
    ELSE IF ~AddressOf[private_key_str].ok
    THEN <<Err(AddressOf[private_key_str].err), ws, f, FALSE>>
    ELSE PushAndSave(Append(ws, NewWallet(name, private_key_str, password,
                                          salt, nonce_bytes)), f, io)

\* Vec::swap_remove(index): the last record takes the place.
RemoveAtSwap(ws, k) ==
    [i \in 1..(Len(ws) - 1) |-> IF i = k THEN ws[Len(ws)] ELSE ws[i]]

\* Vec::remove(index).
RemoveAt(ws, k) ==
    [i \in 1..(Len(ws) - 1) |-> IF i < k THEN ws[i] ELSE ws[i + 1]]

\* WalletStore::remove_wallet: <<result, wallets, file, save was called>>.
remove_wallet(ws, f, name, password, io) ==
    IF ~decrypt_private_key(ws, name, password).ok
    THEN <<Err(decrypt_private_key(ws, name, password).err), ws, f, FALSE>>
    ELSE PushAndSave(RemoveAt(ws, Position(ws, name)), f, io)

\* ------------------------------------------------------------------------
\* The vault as a state machine: one store object, re-created by New.
\* ------------------------------------------------------------------------
VaultInit ==
    /\ wallets = <<>>
    /\ open = TRUE
    /\ file = FileAbsent
    /\ last = Call("new", "", <<>>, "", 0, Ok(<<>>), FALSE)
    /\ creds = {}
    /\ failedAdds = {}
    /\ ioFailures = 0
    /\ drawn = {} /\ removed = {}

\* The outcome io of the file system call is drawn when the call is made,
\* and an injected failure counts against MaxIoFailures.
IoBudget(reached, io) ==
    /\ ~reached => io = "ok"
    /\ io # "ok" => ioFailures < MaxIoFailures
    /\ ioFailures' = IF reached /\ io # "ok" THEN ioFailures + 1
                     ELSE ioFailures

Add(name, key, pw, salt, nonce, io) ==
    \E r \in {add_wallet(wallets, file, name, key, pw, salt, nonce, io)} :
        /\ open
        /\ IoBudget(r[4], io)
        /\ wallets' = r[2]
        /\ file' = r[3]
        /\ last' = Call("add", name, key, "", Found(wallets, name), r[1],
                        r[4])
        /\ creds' = IF r[1].ok THEN creds \cup {<<name, key, pw>>} ELSE creds
        /\ failedAdds' = IF ~r[1].ok /\ r[4]
                         THEN failedAdds \cup {r[2][Len(r[2])]}
                         ELSE failedAdds
        /\ UNCHANGED <<open, cliVars>>

Remove(name, pw, io) ==
    \E r \in {remove_wallet(wallets, file, name, pw, io)} :
        /\ open
        /\ IoBudget(r[4], io)
        /\ wallets' = r[2]
        /\ file' = r[3]
        /\ last' = Call("remove", name, <<>>, pw, Found(wallets, name),
                        r[1], r[4])
        /\ creds' = IF r[4] THEN {c \in creds : c[1] # name} ELSE creds
        /\ failedAdds' = IF r[4] THEN {w \in failedAdds : w.name # name}
                         ELSE failedAdds
        /\ UNCHANGED <<open, cliVars>>

Decrypt(name, pw) ==
    /\ open
    /\ last' = Call("decrypt", name, <<>>, pw, Found(wallets, name),
                    decrypt_private_key(wallets, name, pw), FALSE)
    /\ UNCHANGED <<wallets, open, file, creds, failedAdds, ioFailures,
                   cliVars>>

\* A new process opens the store again.
New(io) ==
    \E r \in {new(file, io)} :
        /\ IoBudget(file # FileAbsent, io)
        /\ wallets' = r.val
        /\ open' = r.ok
        /\ last' = Call("new", "", <<>>, "", 0, IF r.ok THEN Ok(<<>>) ELSE r,
                        FALSE)
        /\ failedAdds' = {}
        /\ UNCHANGED <<file, creds, cliVars>>

VaultNext ==
    /\ \/ \E name \in Names, key \in VaultKeys, pw \in Passwords,
             rng \in RngOutcomes, io \in SaveOutcomes :
             Add(name, key, pw, rng[1], rng[2], io)
       \/ \E name \in Names, pw \in Passwords, io \in SaveOutcomes :
             Remove(name, pw, io)
       \/ \E name \in Names, pw \in Passwords : Decrypt(name, pw)
       \/ \E io \in OpenOutcomes : New(io)
    /\ UNCHANGED rngVars

\* Three names, one key: the vault can hold three records.
OrderNext ==
    /\ \/ \E name \in OrderNames, key \in OrderKeys, pw \in Passwords,
             rng \in RngOutcomes, io \in SaveOutcomes :
             Add(name, key, pw, rng[1], rng[2], io)
       \/ \E name \in OrderNames, pw \in Passwords, io \in SaveOutcomes :
             Remove(name, pw, io)
    /\ UNCHANGED rngVars

\* Imports of keys of every form, well-formed or not, and removals.
KeysNext ==
    /\ \/ \E name \in Names, key \in KeyInputs, rng \in RngOutcomes :
             Add(name, key, "p1", rng[1], rng[2], "ok")
       \/ \E name \in Names : Remove(name, "p1", "ok")
    /\ UNCHANGED rngVars

vars == <<vaultVars, cliVars>>

\* run_cli has not returned.
NoResult == [ok |-> FALSE, val |-> <<>>, err |-> "not returned"]

\* ------------------------------------------------------------------------
\* App and the channel of the TUI loop.
\* ------------------------------------------------------------------------
\* main.rs 282: the message that ends a response.
STREAM_END == "[STREAM_END]"

\* main.rs 253: mpsc::channel(100).
CHANNEL_CAPACITY == 100

\* A text is a sequence of the fragments it was put together from.
ChatMessage(sender, content) == [sender |-> sender, content |-> content]

\* App::new: no messages, nothing streaming (fields as ui.rs reads them).
NewApp == [messages |-> <<>>, is_streaming |-> FALSE,
           current_ai_message |-> <<>>]

\* App::push_message.
push_message(a, sender, content) ==
    [a EXCEPT !.messages = Append(@, ChatMessage(sender, content))]

\* App::start_streaming: a new in-progress response.
start_streaming(a) ==
    [a EXCEPT !.is_streaming = TRUE, !.current_ai_message = <<>>]

\* App::append_stream: the fragment is added to the in-progress response.
append_stream(a, msg) ==
    [a EXCEPT !.current_ai_message = Append(@, msg)]

\* App::finalize_ai_message: the in-progress response becomes a message.
finalize_ai_message(a) ==
    [messages |-> Append(a.messages, ChatMessage("AI", a.current_ai_message)),
     is_streaming |-> FALSE, current_ai_message |-> <<>>]

\* A send task (send_chat): the messages it will send and how many it has
\* sent.
Task(script) == [script |-> script, sent |-> 0]

\* A message in the channel; from names the task that sent it and idx its
\* place in what that task sends (the channel carries text only).
Msg(from, idx, text) == [from |-> from, idx |-> idx, text |-> text]

\* The sui-mcp process: pc is "none" before it is started; env is its
\* SUI_PRIVATE_KEY, startEnv what that was at the start, key its local
\* private_key, served whether it has answered a request.
Mcp(at, env, startEnv, key, served) ==
    [pc |-> at, env |-> env, startEnv |-> startEnv, key |-> key,
     served |-> served]

McpNone == Mcp("none", <<>>, <<>>, <<>>, FALSE)

\* No import command has been started.
ImportNone ==
    [pc |-> "none", name |-> "", key |-> <<>>, password |-> "",
     confirm |-> "", prompts |-> 0, out |-> <<>>, exit |-> -1]

\* No call of execute_transfer has been made.
TransferNone ==
    [pc |-> "none", amount |-> [type |-> "Null", text |-> <<>>],
     to_ok |-> FALSE, dry_run |-> FALSE, amount_mist |-> NoResult,
     required_balance |-> <<>>, coins |-> <<>>, selected_coins |-> 0,
     total_balance |-> <<>>, net |-> <<>>, signed |-> FALSE,
     result |-> NoResult]

\* No App, no channel: run_cli has not reached the TUI.
AppIdle ==
    /\ running = FALSE /\ app = NewApp /\ chan = <<>>
    /\ tasks = <<>> /\ rcvd = <<>>

\* No interactive run: the state of the process before Commands::Cli.
CliIdle ==
    /\ pc = "idle" /\ sel = 0 /\ secret = <<>>
    /\ child = "none" /\ childEnv = <<>> /\ guard = FALSE /\ kills = 0
    /\ retry = 0 /\ attempts = 0 /\ sleeps = 0 /\ client = FALSE
    /\ result = NoResult /\ raw = FALSE /\ alt = FALSE
    /\ exitCode = -1 /\ log = <<>>
    /\ AppIdle /\ pending = <<>>
    /\ ownEnv = <<>> /\ childArgs = <<>> /\ mcp = McpNone
    /\ imp = ImportNone /\ xfer = TransferNone

Init == VaultInit /\ CliIdle

Next == VaultNext

Spec == Init /\ [][Next]_vars

SpecOrder == Init /\ [][OrderNext]_vars

SpecKeys == Init /\ [][KeysNext]_vars

\* ------------------------------------------------------------------------
\* The vault with OsRng as a source of fresh bytes: fill_bytes is taken
\* never to return the same bytes twice (16 and 12 random bytes).
\* ------------------------------------------------------------------------
\* The calls of OsRng.fill_bytes that find fresh bytes in the pools.
MaxDraws == 3

\* The n-th byte string of length len of a pool.
PoolBytes(n, len) == [i \in 1..len |-> (n * 16 + i) % 256]

SaltPool == {PoolBytes(n, SALT_LEN) : n \in 1..MaxDraws}

NoncePool == {PoolBytes(n, NONCE_LEN) : n \in 1..MaxDraws}

\* An add that draws bytes only into an empty vault and otherwise takes the
\* salt and the nonce of the first record.
AddWithRngKept(name, key, pw, salt, nonce, io) ==
    /\ salt \notin drawn /\ nonce \notin drawn
    /\ Add(name, key, pw,
           IF wallets = <<>> THEN salt ELSE HexDecode(wallets[1].salt).val,
           IF wallets = <<>> THEN nonce ELSE HexDecode(wallets[1].nonce).val,
           io)
    /\ drawn' = IF last'.wrote THEN drawn \cup {salt, nonce} ELSE drawn
    /\ UNCHANGED removed

\* add_wallet with its two calls of OsRng.fill_bytes (wallet.rs 72-79),
\* which are reached when the name is new and the key is valid.
AddWithRng(name, key, pw, salt, nonce, io) ==
    /\ salt \notin drawn /\ nonce \notin drawn
    /\ Add(name, key, pw, salt, nonce, io)
    /\ drawn' = IF last'.wrote THEN drawn \cup {salt, nonce} ELSE drawn
    /\ UNCHANGED removed

\* remove_wallet; the record taken out is remembered.
RemoveRecorded(name, pw, io) ==
    /\ Remove(name, pw, io)
    /\ removed' = IF last'.wrote THEN removed \cup {wallets[last'.pos]}
                  ELSE removed
    /\ UNCHANGED drawn

FreshNext ==
    \/ \E name \in Names, salt \in SaltPool, nonce \in NoncePool :
          AddWithRng(name, KeyHex, "p1", salt, nonce, "ok")
    \/ \E name \in Names : RemoveRecorded(name, "p1", "ok")

SpecFresh == Init /\ [][FreshNext]_vars

\* ------------------------------------------------------------------------
\* main.rs: the interactive run.
\* ------------------------------------------------------------------------
MAX_RETRIES == 90

ConnectTimeout ==
    Err("Failed to connect to the agent gRPC server after the timeout")

\* Stores the interactive run starts from: what WalletStore::new read.
StoreOfOne ==
    add_wallet(<<>>, FileAbsent, "a", Key0x, "p1",
               Rep(0, SALT_LEN), Rep(7, NONCE_LEN), "ok")[2]

StoreOfTwo ==
    add_wallet(StoreOfOne, FileAbsent, "A", KeyBech, "p2",
               Rep(171, SALT_LEN), Rep(240, NONCE_LEN), "ok")[2]

CliStores == {<<>>, StoreOfOne, StoreOfTwo}

\* What the user types and submits.
UserTexts == {"hi"}

\* Responses of the agent: fragments, then the end of the stream.
ResponseABC == <<"a", "b", "c", STREAM_END>>

ResponseD == <<"d", STREAM_END>>

\* A response of more messages than the channel holds.
ResponseLong == Rep("a", CHANNEL_CAPACITY + 1) \o <<STREAM_END>>

\* The responses to the successive requests of an interactive run.
CliScripts == {<<>>, <<ResponseD>>}

CliInit ==
    /\ wallets \in CliStores
    /\ open = TRUE
    /\ file = IF wallets = <<>> THEN FileAbsent ELSE FileJson(to_json(wallets))
    /\ last = Call("new", "", <<>>, "", 0, Ok(<<>>), FALSE)
    /\ creds = {}
    /\ failedAdds = {}
    /\ ioFailures = 0
    /\ drawn = {} /\ removed = {}
    /\ pc = "start" /\ sel = 0 /\ secret = <<>>
    /\ child = "none" /\ childEnv = <<>> /\ guard = FALSE /\ kills = 0
    /\ retry = 0 /\ attempts = 0 /\ sleeps = 0 /\ client = FALSE
    /\ result = NoResult /\ raw = FALSE /\ alt = FALSE
    /\ exitCode = -1 /\ log = <<>>
    /\ AppIdle /\ pending \in CliScripts
    /\ ownEnv = <<>> /\ childArgs = <<>> /\ mcp = McpNone
    /\ imp = ImportNone /\ xfer = TransferNone

\* run_cli returns r: its locals are dropped before the caller sees r.
Return(r) ==
    /\ result' = r
    /\ pc' = "dropping"

\* main.rs 122-127.
RunCli ==
    /\ pc = "start"
    /\ IF wallets = <<>>
       THEN Return(Err("No wallets found"))
       ELSE pc' = "select" /\ UNCHANGED result
    /\ UNCHANGED <<sel, secret, child, childEnv, guard, kills, retry, attempts,
                   sleeps, client, raw, alt, exitCode, log>>
    /\ UNCHANGED <<procVars, vaultVars, appVars>>

\* main.rs 140-152: one round of the selection loop on input n.
SelectWallet(n) ==
    /\ pc = "select"
    /\ IF n > 0 /\ n <= Len(wallets)
       THEN sel' = n /\ pc' = "password"
       ELSE UNCHANGED <<sel, pc>>
    /\ UNCHANGED <<secret, child, childEnv, guard, kills, retry, attempts,
                   sleeps, client, result, raw, alt, exitCode, log>>
    /\ UNCHANGED <<procVars, vaultVars, appVars>>

\* main.rs 142, 144, 156: a prompt fails on stdout or stdin.
PromptError ==
    /\ pc \in {"select", "password"}
    /\ Return(Err("io"))
    /\ UNCHANGED <<sel, secret, child, childEnv, guard, kills, retry, attempts,
                   sleeps, client, raw, alt, exitCode, log>>
    /\ UNCHANGED <<procVars, vaultVars, appVars>>

\* A password prompt whose decrypt result is not looked at.
EnterPasswordUnchecked(password) ==
    /\ pc = "password"
    /\ \E r \in {decrypt_private_key(wallets, wallets[sel].name, password)} :
          secret' = <<r.val>> /\ pc' = "spawn" /\ UNCHANGED result
    /\ UNCHANGED <<sel, child, childEnv, guard, kills, retry, attempts,
                   sleeps, client, raw, alt, exitCode, log>>
    /\ UNCHANGED <<procVars, vaultVars, appVars>>

\* main.rs 155-157.
EnterPassword(password) ==
    /\ pc = "password"
    /\ \E r \in {decrypt_private_key(wallets, wallets[sel].name, password)} :
          IF r.ok
          THEN secret' = <<r.val>> /\ pc' = "spawn" /\ UNCHANGED result
          ELSE Return(r) /\ UNCHANGED secret
    /\ UNCHANGED <<sel, child, childEnv, guard, kills, retry, attempts,
                   sleeps, client, raw, alt, exitCode, log>>
    /\ UNCHANGED <<procVars, vaultVars, appVars>>

\* main.rs 176: the arguments of the command.
AgentArgs == << <<".", ".", "/", "a", "g", "e", "n", "t", "-", "p", "y", "/", "m", "a", "i", "n", ".", "p", "y">> >>

\* Command::env: the child inherits the environment of the parent, with
\* the variables set on the command in place of the inherited ones.
CommandEnv(inherited, set) == IF set # <<>> THEN set ELSE inherited

\* A spawn that hands the key over as an argument of the command.
SpawnKeyAsArg(spawned) ==
    /\ pc = "spawn"
    /\ IF spawned
       THEN /\ child' = "running"
            /\ childArgs' = AgentArgs \o secret
            /\ childEnv' = CommandEnv(ownEnv, <<>>)
            /\ guard' = TRUE
            /\ log' = Append(log, "spawn")
            /\ pc' = "connect"
            /\ UNCHANGED result
       ELSE /\ Return(Err("Failed to spawn agent-py process"))
            /\ UNCHANGED <<child, childArgs, childEnv, guard, log>>
    /\ UNCHANGED <<sel, secret, kills, retry, attempts, sleeps, client, raw,
                   alt, exitCode>>
    /\ UNCHANGED <<ownEnv, mcp, cmdVars, vaultVars, appVars>>

\* main.rs 175-202: Command::spawn, then the guard takes the child.
Spawn(spawned) ==
    /\ pc = "spawn"
    /\ IF spawned
       THEN /\ child' = "running"
            /\ childArgs' = AgentArgs
            /\ childEnv' = CommandEnv(ownEnv, secret)
            /\ guard' = TRUE
            /\ log' = Append(log, "spawn")
            /\ pc' = "connect"
            /\ UNCHANGED result
       ELSE /\ Return(Err("Failed to spawn agent-py process"))
            /\ UNCHANGED <<child, childArgs, childEnv, guard, log>>
    /\ UNCHANGED <<sel, secret, kills, retry, attempts, sleeps, client, raw,
                   alt, exitCode>>
    /\ UNCHANGED <<ownEnv, mcp, cmdVars, vaultVars, appVars>>

\* The agent process ends by itself.
ChildExits ==
    /\ child = "running"
    /\ child' = "exited"
    /\ UNCHANGED <<pc, sel, secret, childEnv, guard, kills, retry, attempts,
                   sleeps, client, result, raw, alt, exitCode, log>>
    /\ UNCHANGED <<procVars, vaultVars, appVars>>

\* The range 0..=MAX_RETRIES.
InRetryRangeInclusive(k) == k <= MAX_RETRIES

\* main.rs 223: the range 0..MAX_RETRIES.
InRetryRange(k) == k < MAX_RETRIES

\* main.rs 230: a failed attempt is followed by a sleep.
SleepsAfter(k) == k < MAX_RETRIES - 1

\* An iteration whose successful connect does not leave the loop.
ConnectAttemptNoBreak(connected) ==
    /\ pc = "connect"
    /\ InRetryRange(retry)
    /\ attempts' = attempts + 1
    /\ client' = (client \/ connected)
    /\ sleeps' = IF ~connected /\ SleepsAfter(retry) THEN sleeps + 1 ELSE sleeps
    /\ retry' = retry + 1
    /\ UNCHANGED <<pc, sel, secret, child, childEnv, guard, kills, result, raw,
                   alt, exitCode, log>>
    /\ UNCHANGED <<procVars, vaultVars, appVars>>

\* main.rs 223-237: one iteration of the retry loop.
ConnectAttempt(connected) ==
    /\ pc = "connect"
    /\ InRetryRange(retry)
    /\ attempts' = attempts + 1
    /\ IF connected
       THEN client' = TRUE /\ pc' = "connect_done" /\ UNCHANGED <<retry, sleeps>>
       ELSE /\ sleeps' = IF SleepsAfter(retry) THEN sleeps + 1 ELSE sleeps
            /\ retry' = retry + 1
            /\ UNCHANGED <<client, pc>>
    /\ UNCHANGED <<sel, secret, child, childEnv, guard, kills, result, raw,
                   alt, exitCode, log>>
    /\ UNCHANGED <<procVars, vaultVars, appVars>>

\* main.rs 223: the range is exhausted.
RetryExhausted ==
    /\ pc = "connect"
    /\ ~InRetryRange(retry)
    /\ pc' = "connect_done"
    /\ UNCHANGED <<sel, secret, child, childEnv, guard, kills, retry, attempts,
                   sleeps, client, result, raw, alt, exitCode, log>>
    /\ UNCHANGED <<procVars, vaultVars, appVars>>

\* main.rs 221, 233: flush().unwrap() panics; unwinding drops the locals.
FlushPanic ==
    /\ pc = "connect"
    /\ pc' = "unwinding"
    /\ UNCHANGED <<sel, secret, child, childEnv, guard, kills, retry, attempts,
                   sleeps, client, result, raw, alt, exitCode, log>>
    /\ UNCHANGED <<procVars, vaultVars, appVars>>

\* main.rs 239-250.
ConnectDone ==
    /\ pc = "connect_done"
    /\ IF client
       THEN pc' = "tui_setup" /\ UNCHANGED result
       ELSE Return(ConnectTimeout)
    /\ UNCHANGED <<sel, secret, child, childEnv, guard, kills, retry, attempts,
                   sleeps, client, raw, alt, exitCode, log>>
    /\ UNCHANGED <<procVars, vaultVars, appVars>>

\* main.rs 253-260; failed names the call that fails, "none" if none does.
TuiSetup(failed) ==
    /\ pc = "tui_setup"
    /\ raw' = (failed # "enable_raw_mode")
    /\ alt' = (failed \notin {"enable_raw_mode", "EnterAlternateScreen"})
    /\ IF failed = "none"
       THEN pc' = "loop" /\ UNCHANGED result
       ELSE Return(Err("io"))
    /\ app' = NewApp /\ chan' = <<>> /\ running' = (failed = "none")
    /\ UNCHANGED <<sel, secret, child, childEnv, guard, kills, retry, attempts,
                   sleeps, client, exitCode, log>>
    /\ UNCHANGED <<procVars, vaultVars, tasks, pending, rcvd>>

\* A tick that starts a send task whether or not a text was submitted.
TickSpawnAlways(failed, is_running, user_msg) ==
    /\ pc = "loop"
    /\ IF failed # "none"
       THEN /\ Return(Err("io"))
            /\ UNCHANGED <<running, app, tasks, pending>>
       ELSE /\ pc' = "drain" /\ UNCHANGED result
            /\ running' = is_running
            /\ pending # <<>>
            /\ app' = IF user_msg = <<>> THEN app
                      ELSE start_streaming(push_message(app, "You", user_msg))
            /\ tasks' = Append(tasks, Task(Head(pending)))
            /\ pending' = Tail(pending)
    /\ UNCHANGED <<sel, secret, child, childEnv, guard, kills, retry, attempts,
                   sleeps, client, raw, alt, exitCode, log>>
    /\ UNCHANGED <<procVars, vaultVars, chan, rcvd>>

\* main.rs 263-279: the first half of an iteration of the loop. failed
\* names the call that fails; is_running and user_msg are what handle_input
\* returned (TRUE and <<>> when event::poll found no event). A submitted
\* text starts one send task, which will send the next response.
Tick(failed, is_running, user_msg) ==
    /\ pc = "loop"
    /\ IF failed # "none"
       THEN /\ Return(Err("io"))
            /\ UNCHANGED <<running, app, tasks, pending>>
       ELSE /\ pc' = "drain" /\ UNCHANGED result
            /\ running' = is_running
            /\ IF user_msg = <<>>
               THEN UNCHANGED <<app, tasks, pending>>
               ELSE /\ pending # <<>>
                    /\ app' = start_streaming(
                                  push_message(app, "You", user_msg))
                    /\ tasks' = Append(tasks, Task(Head(pending)))
                    /\ pending' = Tail(pending)
    /\ UNCHANGED <<sel, secret, child, childEnv, guard, kills, retry, attempts,
                   sleeps, client, raw, alt, exitCode, log>>
    /\ UNCHANGED <<procVars, vaultVars, chan, rcvd>>

\* A receive that takes the newest message.
try_recvNewest(c) ==
    IF c = <<>> THEN <<Err("Empty"), c>>
    ELSE <<Ok(c[Len(c)]), SubSeq(c, 1, Len(c) - 1)>>

\* Receiver::try_recv on the messages c: <<result, messages left>>.
try_recv(c) ==
    IF c = <<>> THEN <<Err("Empty"), c>> ELSE <<Ok(Head(c)), Tail(c)>>

\* A loop that appends every received text before it looks at it.
OnMessageAppendFirst(a, text) ==
    IF text = STREAM_END THEN finalize_ai_message(append_stream(a, text))
    ELSE append_stream(a, text)

\* main.rs 282-286: what the loop does with a received text.
OnMessage(a, text) ==
    IF text = STREAM_END THEN finalize_ai_message(a)
    ELSE append_stream(a, text)

\* A drain with `if let` in place of `while let`: one message a tick.
DrainOneIfLet ==
    /\ pc = "drain"
    /\ try_recv(chan)[1].ok
    /\ chan' = try_recv(chan)[2]
    /\ rcvd' = Append(rcvd, try_recv(chan)[1].val)
    /\ app' = OnMessage(app, try_recv(chan)[1].val.text)
    /\ pc' = IF running THEN "loop" ELSE "cleanup"
    /\ UNCHANGED <<sel, secret, child, childEnv, guard, kills, retry,
                   attempts, sleeps, client, result, raw, alt, exitCode, log>>
    /\ UNCHANGED <<procVars, vaultVars, running, tasks, pending>>

\* main.rs 281-287: try_recv returned a message.
DrainOne ==
    /\ pc = "drain"
    /\ try_recv(chan)[1].ok
    /\ chan' = try_recv(chan)[2]
    /\ rcvd' = Append(rcvd, try_recv(chan)[1].val)
    /\ app' = OnMessage(app, try_recv(chan)[1].val.text)
    /\ UNCHANGED <<pc, sel, secret, child, childEnv, guard, kills, retry,
                   attempts, sleeps, client, result, raw, alt, exitCode, log>>
    /\ UNCHANGED <<procVars, vaultVars, running, tasks, pending>>

\* A drain on recv().await: with the channel empty the loop waits for the
\* next message; recv returns None only when every sender is gone, and
\* App holds one.
DrainEndRecv ==
    /\ pc = "drain"
    /\ ~try_recv(chan)[1].ok
    /\ FALSE
    /\ UNCHANGED <<vaultVars, cliVars>>

\* main.rs 281, 263: try_recv found the channel empty; the loop goes on
\* while running.
DrainEnd ==
    /\ pc = "drain"
    /\ ~try_recv(chan)[1].ok
    /\ pc' = IF running THEN "loop" ELSE "cleanup"
    /\ UNCHANGED <<sel, secret, child, childEnv, guard, kills, retry,
                   attempts, sleeps, client, result, raw, alt, exitCode, log>>
    /\ UNCHANGED <<procVars, vaultVars, appVars>>

\* The receiver lives from App::new until the locals of run_cli are dropped.
RxAlive == pc \in {"loop", "drain", "cleanup", "dropping"}

\* A send that takes one message more than the capacity.
SendReadyOneMore(c) == Len(c) <= CHANNEL_CAPACITY

\* Sender::send on the messages c: the call returns when there is room.
SendReady(c) == Len(c) < CHANNEL_CAPACITY

\* send_chat (task p): the next message of the response is sent; the task
\* is suspended while the channel is full.
Send(p) ==
    /\ RxAlive
    /\ tasks[p].sent < Len(tasks[p].script)
    /\ SendReady(chan)
    /\ chan' = Append(chan, Msg(p, tasks[p].sent + 1,
                                tasks[p].script[tasks[p].sent + 1]))
    /\ tasks' = [tasks EXCEPT ![p].sent = @ + 1]
    /\ UNCHANGED <<pc, sel, secret, child, childEnv, guard, kills, retry,
                   attempts, sleeps, client, result, raw, alt, exitCode, log>>
    /\ UNCHANGED <<procVars, vaultVars, running, app, pending, rcvd>>

\* A cleanup that also kills the child itself.
CleanupKilling(failed) ==
    /\ pc = "cleanup"
    /\ raw' = IF failed = "disable_raw_mode" THEN raw ELSE FALSE
    /\ alt' = IF failed = "none" THEN FALSE ELSE alt
    /\ Return(IF failed = "none" THEN Ok(<<>>) ELSE Err("io"))
    /\ kills' = kills + 1
    /\ child' = IF child = "running" THEN "killed" ELSE child
    /\ UNCHANGED <<sel, secret, childEnv, guard, retry, attempts,
                   sleeps, client, exitCode, log>>
    /\ UNCHANGED <<procVars, vaultVars, appVars>>

\* main.rs 291-294.
Cleanup(failed) ==
    /\ pc = "cleanup"
    /\ raw' = IF failed = "disable_raw_mode" THEN raw ELSE FALSE
    /\ alt' = IF failed = "none" THEN FALSE ELSE alt
    /\ Return(IF failed = "none" THEN Ok(<<>>) ELSE Err("io"))
    /\ UNCHANGED <<sel, secret, child, childEnv, guard, kills, retry, attempts,
                   sleeps, client, exitCode, log>>
    /\ UNCHANGED <<procVars, vaultVars, appVars>>

\* A Drop that reports but does not kill.
ChildProcessGuardDropNoKill == UNCHANGED <<kills, child, log>>

\* impl Drop for ChildProcessGuard (main.rs 32-38): one Child::kill.
ChildProcessGuardDrop ==
    /\ kills' = kills + 1
    /\ child' = IF child = "running" THEN "killed" ELSE child
    /\ log' = Append(log, "kill")

\* The locals of run_cli go out of scope; _guard is dropped if it exists.
DropLocals ==
    /\ pc \in {"dropping", "unwinding"}
    /\ IF guard THEN ChildProcessGuardDrop
                ELSE UNCHANGED <<kills, child, log>>
    /\ guard' = FALSE
    /\ pc' = IF pc = "dropping" THEN "returned" ELSE "panicked"
    /\ app' = NewApp /\ chan' = <<>> /\ running' = FALSE
    /\ UNCHANGED <<sel, secret, childEnv, retry, attempts, sleeps, client,
                   result, raw, alt, exitCode>>
    /\ UNCHANGED <<procVars, vaultVars, tasks, pending, rcvd>>

\* The step of main that restores the terminal, as the log names it.
RestoreEntry(failed) == IF failed = "none" THEN "restore" ELSE "restore_failed"

\* A main that prints the error while the terminal is still in raw mode
\* and restores it afterwards.
MainResultPrintFirst(failed) ==
    /\ pc = "returned"
    /\ IF result.ok
       THEN /\ pc' = "exited" /\ exitCode' = 0
            /\ log' = log \o <<"return", "exit">>
            /\ UNCHANGED <<raw, alt>>
       ELSE /\ raw' = IF failed = "disable_raw_mode" THEN raw ELSE FALSE
            /\ alt' = IF failed = "LeaveAlternateScreen" THEN alt ELSE FALSE
            /\ log' = log \o <<"return", "print", RestoreEntry(failed)>>
            /\ pc' = "grace"
            /\ UNCHANGED exitCode
    /\ UNCHANGED <<sel, secret, child, childEnv, guard, kills, retry, attempts,
                   sleeps, client, result>>
    /\ UNCHANGED <<procVars, vaultVars, appVars>>

\* main.rs 51-60 and 111: main sees the result of run_cli. On an error it
\* calls disable_raw_mode and LeaveAlternateScreen and discards what they
\* return (let _ =); failed names the call that fails, "none" if none does.
MainResult(failed) ==
    /\ pc = "returned"
    /\ IF result.ok
       THEN /\ pc' = "exited" /\ exitCode' = 0
            /\ log' = log \o <<"return", "exit">>
            /\ UNCHANGED <<raw, alt>>
       ELSE /\ raw' = IF failed = "disable_raw_mode" THEN raw ELSE FALSE
            /\ alt' = IF failed = "LeaveAlternateScreen" THEN alt ELSE FALSE
            /\ log' = log \o <<"return", RestoreEntry(failed), "print">>
            /\ pc' = "grace"
            /\ UNCHANGED exitCode
    /\ UNCHANGED <<sel, secret, child, childEnv, guard, kills, retry, attempts,
                   sleeps, client, result>>
    /\ UNCHANGED <<procVars, vaultVars, appVars>>

\* main.rs 63-65: the grace period, then exit(1).
GraceExit ==
    /\ pc = "grace"
    /\ pc' = "exited" /\ exitCode' = 1
    /\ log' = log \o <<"grace", "exit">>
    /\ UNCHANGED <<sel, secret, child, childEnv, guard, kills, retry, attempts,
                   sleeps, client, result, raw, alt>>
    /\ UNCHANGED <<procVars, vaultVars, appVars>>

\* The panic leaves main: the process ends with the status of a panic.
PanicExit ==
    /\ pc = "panicked"
    /\ pc' = "exited" /\ exitCode' = 101
    /\ log' = Append(log, "exit")
    /\ UNCHANGED <<sel, secret, child, childEnv, guard, kills, retry, attempts,
                   sleeps, client, result, raw, alt>>
    /\ UNCHANGED <<procVars, vaultVars, appVars>>

TuiCalls == {"none", "enable_raw_mode", "EnterAlternateScreen", "Terminal::new"}

TickCalls == {"none", "draw_ui", "event::poll", "handle_input"}

CleanupCalls == {"none", "disable_raw_mode", "LeaveAlternateScreen"}

CliNext ==
    \/ RunCli
    \/ \E n \in 0..3 : SelectWallet(n)
    \/ PromptError
    \/ \E password \in Passwords : EnterPassword(password)
    \/ \E spawned \in BOOLEAN : Spawn(spawned)
    \/ ChildExits
    \/ \E connected \in BOOLEAN : ConnectAttempt(connected)
    \/ RetryExhausted
    \/ FlushPanic
    \/ ConnectDone
    \/ \E failed \in TuiCalls : TuiSetup(failed)
    \/ \E failed \in TickCalls, is_running \in BOOLEAN,
          user_msg \in {<<>>} \cup {<<t>> : t \in UserTexts} :
          Tick(failed, is_running, user_msg)
    \/ DrainOne
    \/ DrainEnd
    \/ \E p \in 1..Len(tasks) : Send(p)
    \/ \E failed \in CleanupCalls : Cleanup(failed)
    \/ DropLocals
    \/ \E failed \in CleanupCalls : MainResult(failed)
    \/ GraceExit
    \/ PanicExit

SpecCli == CliInit /\ [][CliNext]_vars

\* ------------------------------------------------------------------------
\* sui-mcp/src/main.rs: the start of the sui-mcp process, and the way of the
\* key from the vault to it.
\* ------------------------------------------------------------------------
McpFrame ==
    /\ UNCHANGED <<pc, sel, secret, child, childEnv, guard, kills, retry,
                   attempts, sleeps, client, result, raw, alt, exitCode, log>>
    /\ UNCHANGED <<ownEnv, childArgs, cmdVars, vaultVars, appVars>>

\* The sui-mcp process is started: by the agent process, whose environment
\* it inherits, or by the user from the environment the CLI was started
\* from.
McpStart(byAgent) ==
    /\ mcp.pc = "none"
    /\ byAgent => child = "running"
    /\ \E env \in {IF byAgent THEN childEnv ELSE ownEnv} :
          mcp' = Mcp("start", env, env, <<>>, FALSE)
    /\ McpFrame

\* sui-mcp/src/main.rs 275-276.
McpReadKey ==
    /\ mcp.pc = "start"
    /\ mcp' = IF mcp.env = <<>>
              THEN [mcp EXCEPT !.pc = "failed"]
              ELSE [mcp EXCEPT !.pc = "key_read", !.key = mcp.env]
    /\ McpFrame

\* sui-mcp/src/main.rs 279.
McpRemoveVar ==
    /\ mcp.pc = "key_read"
    /\ mcp' = [mcp EXCEPT !.pc = "removed", !.env = <<>>]
    /\ McpFrame

\* sui-mcp/src/main.rs 281-284: ToolService::new parses the key and
\* connects to the full node; built tells whether both succeeded.
McpNewService(built) ==
    /\ mcp.pc = "removed"
    /\ mcp' = [mcp EXCEPT !.pc = IF built THEN "built" ELSE "failed"]
    /\ McpFrame

\* sui-mcp/src/main.rs 286-291: serve on stdin and stdout.
McpServe(served) ==
    /\ mcp.pc = "built"
    /\ mcp' = [mcp EXCEPT !.pc = IF served THEN "serving" ELSE "failed"]
    /\ McpFrame

\* The service answers a request.
McpRequest ==
    /\ mcp.pc = "serving"
    /\ mcp' = [mcp EXCEPT !.served = TRUE]
    /\ McpFrame

\* sui-mcp/src/main.rs 293-295: the peer closed the connection.
McpDone ==
    /\ mcp.pc = "serving"
    /\ mcp' = [mcp EXCEPT !.pc = "done"]
    /\ McpFrame

\* What SUI_PRIVATE_KEY may hold in the environment the CLI is started
\* from.
OwnEnvs == {<<>>, <<KeyHex>>}

SecretInit ==
    /\ wallets \in CliStores
    /\ open = TRUE
    /\ file = IF wallets = <<>> THEN FileAbsent ELSE FileJson(to_json(wallets))
    /\ last = Call("new", "", <<>>, "", 0, Ok(<<>>), FALSE)
    /\ creds = {}
    /\ failedAdds = {}
    /\ ioFailures = 0
    /\ drawn = {} /\ removed = {}
    /\ pc = "start" /\ sel = 0 /\ secret = <<>>
    /\ child = "none" /\ childEnv = <<>> /\ guard = FALSE /\ kills = 0
    /\ retry = 0 /\ attempts = 0 /\ sleeps = 0 /\ client = FALSE
    /\ result = NoResult /\ raw = FALSE /\ alt = FALSE
    /\ exitCode = -1 /\ log = <<>>
    /\ AppIdle /\ pending = <<>>
    /\ ownEnv \in OwnEnvs /\ childArgs = <<>> /\ mcp = McpNone
    /\ imp = ImportNone /\ xfer = TransferNone

\* The run up to the connection, and the sui-mcp process.
SecretNext ==
    \/ RunCli
    \/ \E n \in 0..3 : SelectWallet(n)
    \/ PromptError
    \/ \E password \in Passwords : EnterPassword(password)
    \/ \E spawned \in BOOLEAN : Spawn(spawned)
    \/ ChildExits
    \/ FlushPanic
    \/ DropLocals
    \/ \E byAgent \in BOOLEAN : McpStart(byAgent)
    \/ McpReadKey
    \/ McpRemoveVar
    \/ \E built \in BOOLEAN : McpNewService(built)
    \/ \E served \in BOOLEAN : McpServe(served)
    \/ McpRequest
    \/ McpDone

SpecSecret == SecretInit /\ [][SecretNext]_vars

\* ------------------------------------------------------------------------
\* The TUI loop on its own: run_cli from main.rs 262 until it returns, with
\* more requests and longer responses than the whole run above.
\* ------------------------------------------------------------------------
\* The requests of one run of the loop.
MaxRequests == 2

\* The responses to the successive requests: up to MaxRequests requests,
\* the first answered by ResponseABC and the others by ResponseD, or one
\* request answered by ResponseLong.
LoopScripts ==
    {[i \in 1..k |-> IF i = 1 THEN ResponseABC ELSE ResponseD] :
        k \in 0..MaxRequests} \cup {<<ResponseLong>>}

\* run_cli at main.rs 262: wallet 1 of StoreOfOne unlocked, the agent
\* spawned and connected at the first attempt, the TUI set up.
LoopInit ==
    /\ wallets = StoreOfOne
    /\ open = TRUE
    /\ file = FileJson(to_json(wallets))
    /\ last = Call("new", "", <<>>, "", 0, Ok(<<>>), FALSE)
    /\ creds = {}
    /\ failedAdds = {}
    /\ ioFailures = 0
    /\ drawn = {} /\ removed = {}
    /\ pc = "loop" /\ sel = 1 /\ secret = <<Key0x>>
    /\ child = "running" /\ childEnv = <<Key0x>> /\ guard = TRUE /\ kills = 0
    /\ retry = 0 /\ attempts = 1 /\ sleeps = 0 /\ client = TRUE
    /\ result = NoResult /\ raw = TRUE /\ alt = TRUE
    /\ exitCode = -1 /\ log = <<"spawn">>
    /\ running = TRUE /\ app = NewApp /\ chan = <<>>
    /\ tasks = <<>> /\ rcvd = <<>>
    /\ pending \in LoopScripts
    /\ ownEnv = <<>> /\ childArgs = AgentArgs /\ mcp = McpNone
    /\ imp = ImportNone /\ xfer = TransferNone

LoopNext ==
    \/ \E failed \in TickCalls, is_running \in BOOLEAN,
          user_msg \in {<<>>} \cup {<<t>> : t \in UserTexts} :
          Tick(failed, is_running, user_msg)
    \/ DrainOne
    \/ DrainEnd
    \/ \E p \in 1..Len(tasks) : Send(p)
    \/ \E failed \in CleanupCalls : Cleanup(failed)
    \/ DropLocals

SpecLoop == LoopInit /\ [][LoopNext]_vars

\* The steps of the task that runs run_cli; the runtime keeps scheduling
\* it. Nothing is assumed about the send tasks.
LoopStep ==
    \/ \E failed \in TickCalls, is_running \in BOOLEAN,
          user_msg \in {<<>>} \cup {<<t>> : t \in UserTexts} :
          Tick(failed, is_running, user_msg)
    \/ DrainOne
    \/ DrainEnd
    \/ \E failed \in CleanupCalls : Cleanup(failed)
    \/ DropLocals

SpecLoopFair == LoopInit /\ [][LoopNext]_vars /\ WF_vars(LoopStep)

\* ------------------------------------------------------------------------
\* main.rs 41-112: the `wallet import` command, one process a run.
\* ------------------------------------------------------------------------
ImportFrame ==
    /\ UNCHANGED <<pc, sel, secret, child, childEnv, guard, kills, retry,
                   attempts, sleeps, client, result, raw, alt, exitCode, log>>
    /\ UNCHANGED <<ownEnv, childArgs, mcp, xfer, appVars, rngVars>>

\* main.rs 41-72: the process starts, opens the store (44-45) and, on
\* Commands::Wallet with WalletAction::Import, shows the first prompt. A
\* failure of WalletStore::new leaves main by `?`: exit code 1.
ImportStart(name, io) ==
    \E r \in {new(file, io)} :
        /\ imp.pc \in {"none", "exit"}
        /\ IoBudget(file # FileAbsent, io)
        /\ wallets' = r.val
        /\ open' = r.ok
        /\ last' = Call("new", "", <<>>, "", 0, IF r.ok THEN Ok(<<>>) ELSE r,
                        FALSE)
        /\ failedAdds' = {}
        /\ imp' = IF r.ok
                  THEN [ImportNone EXCEPT !.pc = "key", !.name = name,
                                          !.prompts = 1]
                  ELSE [ImportNone EXCEPT !.pc = "exit", !.exit = 1]
        /\ UNCHANGED <<file, creds>>
        /\ ImportFrame

\* main.rs 70-71: read_password_from_prompt returns the private key, or
\* fails and main returns the error by `?`.
ImportReadKey(private_key_str, failed) ==
    /\ imp.pc = "key"
    /\ imp' = IF failed THEN [imp EXCEPT !.pc = "exit", !.exit = 1]
              ELSE [imp EXCEPT !.pc = "password", !.key = private_key_str,
                               !.prompts = @ + 1]
    /\ UNCHANGED <<wallets, open, file, last, creds, failedAdds, ioFailures>>
    /\ ImportFrame

\* main.rs 72-73.
ImportReadPassword(password, failed) ==
    /\ imp.pc = "password"
    /\ imp' = IF failed THEN [imp EXCEPT !.pc = "exit", !.exit = 1]
              ELSE [imp EXCEPT !.pc = "confirm", !.password = password,
                               !.prompts = @ + 1]
    /\ UNCHANGED <<wallets, open, file, last, creds, failedAdds, ioFailures>>
    /\ ImportFrame

\* main.rs 74-93 and 111: the confirmation is read; when it differs from
\* the password the command prints "Passwords do not match." and main
\* returns Ok(()); otherwise add_wallet is called, its outcome is printed
\* and main returns Ok(()). A failed read leaves main by `?`.
ImportConfirm(confirm_password, failed, salt, nonce, io) ==
    /\ imp.pc = "confirm"
    /\ IF failed
       THEN /\ imp' = [imp EXCEPT !.pc = "exit", !.exit = 1]
            /\ io = "ok"
            /\ UNCHANGED <<wallets, file, last, creds, failedAdds,
                           ioFailures>>
       ELSE IF imp.password # confirm_password
       THEN /\ imp' = [imp EXCEPT !.pc = "exit", !.exit = 0,
                                  !.confirm = confirm_password,
                                  !.out = Append(@, "Passwords do not match.")]
            /\ io = "ok"
            /\ UNCHANGED <<wallets, file, last, creds, failedAdds,
                           ioFailures>>
       ELSE \E r \in {add_wallet(wallets, file, imp.name, imp.key,
                                  imp.password, salt, nonce, io)} :
               /\ IoBudget(r[4], io)
               /\ wallets' = r[2]
               /\ file' = r[3]
               /\ last' = Call("add", imp.name, imp.key, "",
                               Found(wallets, imp.name), r[1], r[4])
               /\ creds' = IF r[1].ok
                           THEN creds \cup {<<imp.name, imp.key,
                                              imp.password>>}
                           ELSE creds
               /\ failedAdds' = IF ~r[1].ok /\ r[4]
                                THEN failedAdds \cup {r[2][Len(r[2])]}
                                ELSE failedAdds
               /\ imp' = [imp EXCEPT !.pc = "exit", !.exit = 0,
                                     !.confirm = confirm_password,
                                     !.out = Append(@, IF r[1].ok
                                                       THEN "imported"
                                                       ELSE "Error")]
    /\ UNCHANGED open
    /\ ImportFrame

ImportNext ==
    \/ \E name \in Names, io \in OpenOutcomes : ImportStart(name, io)
    \/ \E key \in VaultKeys, failed \in BOOLEAN : ImportReadKey(key, failed)
    \/ \E password \in Passwords, failed \in BOOLEAN :
          ImportReadPassword(password, failed)
    \/ \E confirm_password \in Passwords, failed \in BOOLEAN,
          rng \in RngOutcomes, io \in SaveOutcomes :
          ImportConfirm(confirm_password, failed, rng[1], rng[2], io)

SpecImport == Init /\ [][ImportNext]_vars

\* ------------------------------------------------------------------------
\* sui-mcp/src/sui/transfer.rs: execute_transfer.
\* ------------------------------------------------------------------------
\* Natural numbers are written in base 10^9, least significant limb first:
\* <<l0, l1, l2>> is l0 + l1 * 10^9 + l2 * 10^18. A u64 is such a number
\* below 2^64.
MIST_PER_SUI == 1000000000

Zero == <<0, 0, 0>>

\* u64::MAX = 18446744073709551615.
U64_MAX == <<709551615, 446744073, 18>>

\* 2^64.
TWO_64 == <<709551616, 446744073, 18>>

BigLess(a, b) ==
    \/ a[3] < b[3]
    \/ a[3] = b[3] /\ a[2] < b[2]
    \/ a[3] = b[3] /\ a[2] = b[2] /\ a[1] < b[1]

\* The sum in the natural numbers.
BigAdd(a, b) ==
    <<(a[1] + b[1]) % MIST_PER_SUI,
      (a[2] + b[2] + (a[1] + b[1]) \div MIST_PER_SUI) % MIST_PER_SUI,
      a[3] + b[3]
        + (a[2] + b[2] + (a[1] + b[1]) \div MIST_PER_SUI) \div MIST_PER_SUI>>

\* a - b for a >= b.
BigSub(a, b) ==
    <<(a[1] - b[1]) % MIST_PER_SUI,
      (a[2] - b[2] - (IF a[1] < b[1] THEN 1 ELSE 0)) % MIST_PER_SUI,
      a[3] - b[3]
        - (IF a[2] - (IF a[1] < b[1] THEN 1 ELSE 0) < b[2] THEN 1 ELSE 0)>>

FitsU64(a) == BigLess(a, TWO_64)

\* u64 addition that wraps (overflow checks off, the release profile).
wrapping_add(a, b) ==
    IF FitsU64(BigAdd(a, b)) THEN BigAdd(a, b)
    ELSE BigSub(BigAdd(a, b), TWO_64)

\* A float to integer cast saturates.
Saturate(a) == IF FitsU64(a) THEN a ELSE U64_MAX

DecDigits == <<"0", "1", "2", "3", "4", "5", "6", "7", "8", "9">>

IsDigit(c) == \E i \in 1..10 : DecDigits[i] = c

DigitVal(c) == (CHOOSE i \in 1..10 : DecDigits[i] = c) - 1

AllDigits(ds) == \A i \in 1..Len(ds) : IsDigit(ds[i])

\* Value of at most 9 digits.
RECURSIVE ChunkVal(_)
ChunkVal(ds) ==
    IF ds = <<>> THEN 0
    ELSE 10 * ChunkVal(SubSeq(ds, 1, Len(ds) - 1)) + DigitVal(ds[Len(ds)])

RECURSIVE StripZeros(_)
StripZeros(ds) ==
    IF ds # <<>> /\ ds[1] = "0" THEN StripZeros(Tail(ds)) ELSE ds

\* Value of a digit sequence; one of more than 27 significant digits is
\* given a value above every u64.
DigitsToBig(ds) ==
    IF Len(StripZeros(ds)) > 27
    THEN <<MIST_PER_SUI - 1, MIST_PER_SUI - 1, MIST_PER_SUI - 1>>
    ELSE <<ChunkVal(SubSeq(Rep("0", 27) \o StripZeros(ds),
                           Len(StripZeros(ds)) + 19,
                           Len(StripZeros(ds)) + 27)),
           ChunkVal(SubSeq(Rep("0", 27) \o StripZeros(ds),
                           Len(StripZeros(ds)) + 10,
                           Len(StripZeros(ds)) + 18)),
           ChunkVal(SubSeq(Rep("0", 27) \o StripZeros(ds),
                           Len(StripZeros(ds)) + 1,
                           Len(StripZeros(ds)) + 9))>>

\* A decimal: sign, digits before the point, digits after it.
Decimal(neg, int, frac) == [neg |-> neg, int |-> int, frac |-> frac]

Unsigned(s) == IF s # <<>> /\ s[1] \in {"+", "-"} THEN Tail(s) ELSE s

\* Position of the first point of s, Len(s) + 1 when it has none.
PointAt(s) ==
    IF \E i \in 1..Len(s) : s[i] = "."
    THEN CHOOSE i \in 1..Len(s) :
            s[i] = "." /\ \A j \in 1..(i - 1) : s[j] # "."
    ELSE Len(s) + 1

contains_point(s) == \E i \in 1..Len(s) : s[i] = "."

\* str::parse::<f64> on texts without exponent: an optional sign, digits
\* with at most one point, one digit at least. The value is kept as the
\* decimal it is; the amounts of the model are those for which the f64
\* and its product with 10^9 are exact.
parse_f64(s) ==
    IF /\ AllDigits(SubSeq(Unsigned(s), 1, PointAt(Unsigned(s)) - 1))
       /\ AllDigits(SubSeq(Unsigned(s), PointAt(Unsigned(s)) + 1,
                           Len(Unsigned(s))))
       /\ Len(Unsigned(s)) > (IF contains_point(s) THEN 1 ELSE 0)
    THEN Ok(Decimal(s[1] = "-",
                    SubSeq(Unsigned(s), 1, PointAt(Unsigned(s)) - 1),
                    SubSeq(Unsigned(s), PointAt(Unsigned(s)) + 1,
                           Len(Unsigned(s)))))
    ELSE Err("invalid float literal")

\* str::parse::<u64>: an optional "+", then digits, the value below 2^64.
parse_u64(s) ==
    IF /\ s # <<>> /\ s[1] # "-"
       /\ Unsigned(s) # <<>>
       /\ AllDigits(Unsigned(s))
       /\ FitsU64(DigitsToBig(Unsigned(s)))
    THEN Ok(DigitsToBig(Unsigned(s)))
    ELSE Err("invalid digit found in string")

\* f64::fract() != 0.0.
HasFraction(d) == \E i \in 1..Len(d.frac) : d.frac[i] # "0"

\* `f as u64`: toward zero, saturating; a negative value gives 0.
f64_as_u64(d) == IF d.neg THEN Zero ELSE Saturate(DigitsToBig(d.int))

\* f * 1_000_000_000.0.
TimesMistPerSui(d) ==
    Decimal(d.neg, d.int \o SubSeq(d.frac \o Rep("0", 9), 1, 9),
            SubSeq(d.frac, 10, Len(d.frac)))

\* serde_json::Value, of the types the call can be given; text is the
\* number as it is written in the request, or the content of the string.
JsonNumber(text) == [type |-> "Number", text |-> text]

JsonString(text) == [type |-> "String", text |-> text]

\* The JSON grammar of a number without exponent.
IsJsonNumber(t) ==
    /\ parse_f64(t).ok
    /\ t[1] # "+"
    /\ parse_f64(t).val.int # <<>>
    /\ Len(parse_f64(t).val.int) > 1 => parse_f64(t).val.int[1] # "0"
    /\ contains_point(t) => parse_f64(t).val.frac # <<>>

\* serde_json::Number of a number text: PosInt (a u64) for a non-negative
\* integer below 2^64, NegInt for a negative integer, Float otherwise (an
\* integer that fits neither is read as f64, and so is -0).
NumberKind(t) ==
    IF contains_point(t) THEN "Float"
    ELSE IF t[1] # "-"
    THEN IF FitsU64(DigitsToBig(t)) THEN "PosInt" ELSE "Float"
    ELSE IF DigitsToBig(Tail(t)) = Zero THEN "Float" ELSE "NegInt"

\* The amount in MIST by the way the number is written: SUI scaled by
\* 10^9 with a point, MIST without one.
NumberToMistByPoint(t) ==
    IF contains_point(t)
    THEN f64_as_u64(TimesMistPerSui(parse_f64(t).val))
    ELSE IF NumberKind(t) = "PosInt" THEN DigitsToBig(t)
    ELSE f64_as_u64(parse_f64(t).val)

\* transfer.rs 23-29: is_f64 and a fraction: scaled; otherwise as_u64, or
\* the f64 cast to u64.
NumberToMist(t) ==
    IF NumberKind(t) = "Float" /\ HasFraction(parse_f64(t).val)
    THEN f64_as_u64(TimesMistPerSui(parse_f64(t).val))
    ELSE IF NumberKind(t) = "PosInt" THEN DigitsToBig(t)
    ELSE f64_as_u64(parse_f64(t).val)

\* transfer.rs 22-43.
amount_mist(amount_json) ==
    IF amount_json.type = "Number" THEN Ok(NumberToMist(amount_json.text))
    ELSE IF amount_json.type = "String"
    THEN IF contains_point(amount_json.text)
         THEN IF parse_f64(amount_json.text).ok
              THEN Ok(f64_as_u64(TimesMistPerSui(
                          parse_f64(amount_json.text).val)))
              ELSE Err("Invalid 'amount' string format for SUI.")
         ELSE IF parse_u64(amount_json.text).ok
              THEN parse_u64(amount_json.text)
              ELSE Err("Invalid 'amount' string format. Must be a whole number for MIST.")
    ELSE Err("The 'amount' parameter must be a number or a string.")

\* transfer.rs 48.
gas_budget == <<50000000, 0, 0>>

\* A task that panicked returns nothing.
Panicked ==
    [ok |-> FALSE, val |-> <<>>, err |-> "panic: attempt to add with overflow"]

\* transfer.rs 61-69: the loop over coins from coin k on, total being the
\* sum so far. wraps tells whether u64 addition wraps or panics on
\* overflow. The result is the number of coins selected and the total, or
\* a panic.
RECURSIVE SelectFrom(_, _, _, _, _)
SelectFrom(coins, k, total, required, wraps) ==
    IF k > Len(coins)
    THEN [panic |-> FALSE, n |-> Len(coins), total |-> total]
    ELSE IF ~FitsU64(BigAdd(total, coins[k])) /\ ~wraps
    THEN [panic |-> TRUE, n |-> k, total |-> total]
    ELSE IF ~BigLess(wrapping_add(total, coins[k]), required)
    THEN [panic |-> FALSE, n |-> k,
          total |-> wrapping_add(total, coins[k])]
    ELSE SelectFrom(coins, k + 1, wrapping_add(total, coins[k]), required,
                    wraps)

\* The amounts of the requests, as texts.
AmountTexts ==
    {<<"0">>, <<"1">>, <<"1", "0", "0", "0", "0", "0", "0", "0">>,
     <<"1", "0", "0", "0", "0", "0", "0", "0", "0", "0">>,
     <<"0", ".", "5">>, <<"1", ".", "0">>, <<"1", ".", "5">>,
     <<"2", ".", "0">>, <<"-", "1">>, <<"-", "0", ".", "5">>,
     <<"1", "8", "4", "4", "6", "7", "4", "4", "0", "7", "3", "7", "0", "9",
       "5", "5", "1", "6", "1", "5">>,
     <<"1", "8", "4", "4", "6", "7", "4", "4", "0", "7", "3", "7", "0", "9",
       "5", "5", "1", "6", "1", "6">>,
     <<"a", "b", "c">>, <<>>, <<"1", ".">>, <<".", "5">>, <<"+", "5">>,
     <<"1", ".", "2", ".", "3">>, <<".">>}

AmountValues ==
    {JsonNumber(t) : t \in {u \in AmountTexts : IsJsonNumber(u)}}
        \cup {JsonString(t) : t \in AmountTexts}
        \cup {[type |-> "Bool", text |-> <<>>],
              [type |-> "Null", text |-> <<>>]}

\* amount_mist on each amount, computed once.
AmountMistOf == [j \in AmountValues |-> amount_mist(j)]

TransferFrame ==
    /\ UNCHANGED <<pc, sel, secret, child, childEnv, guard, kills, retry,
                   attempts, sleeps, client, result, raw, alt, exitCode, log>>
    /\ UNCHANGED <<ownEnv, childArgs, mcp, imp, appVars, vaultVars>>

\* The call returns r.
TransferReturn(x, r) == [x EXCEPT !.pc = "done", !.result = r]

\* sui-mcp main.rs 92-104 and transfer.rs 14-49: the tool is called; the
\* amount and the recipient are parsed and required_balance is computed.
\* wraps tells what the build does on u64 overflow: wrap, or panic.
TransferCall(amount_json, to_ok, dry_run, wraps) ==
    /\ xfer.pc \in {"none", "done"}
    /\ \E x \in {[TransferNone EXCEPT !.amount = amount_json,
                                      !.to_ok = to_ok,
                                      !.dry_run = dry_run,
                                      !.amount_mist =
                                          AmountMistOf[amount_json]]} :
          /\ xfer' =
               IF ~x.amount_mist.ok
               THEN TransferReturn(x, x.amount_mist)
               ELSE IF ~to_ok
               THEN TransferReturn(x, Err("Invalid recipient address"))
               ELSE IF ~FitsU64(BigAdd(x.amount_mist.val, gas_budget))
                       /\ ~wraps
               THEN TransferReturn(x, Panicked)
               ELSE [x EXCEPT !.pc = "coins",
                              !.required_balance =
                                  wrapping_add(x.amount_mist.val, gas_budget)]
          /\ \/ wraps
             \/ /\ x.amount_mist.ok /\ to_ok
                /\ ~FitsU64(BigAdd(x.amount_mist.val, gas_budget))
    /\ TransferFrame

\* transfer.rs 51-76: the coins of the sender are fetched, gas coins are
\* selected and the balance is checked.
TransferGetCoins(coins, wraps) ==
    /\ xfer.pc = "coins"
    /\ \E x \in {[xfer EXCEPT !.coins = coins,
                              !.net = Append(@, "get_coins")]},
          r \in {SelectFrom(coins, 1, Zero, xfer.required_balance, wraps)} :
          /\ xfer' =
               IF coins = <<>>
               THEN TransferReturn(x, Err("No SUI coins found for the address."))
               ELSE IF r.panic THEN TransferReturn(x, Panicked)
               ELSE IF BigLess(r.total, xfer.required_balance)
               THEN TransferReturn([x EXCEPT !.total_balance = r.total,
                                             !.selected_coins = r.n],
                                   Err("Insufficient SUI balance."))
               ELSE [x EXCEPT !.pc = "gas_price",
                              !.total_balance = r.total,
                              !.selected_coins = r.n]
          /\ r.panic \/ wraps
    /\ TransferFrame

\* transfer.rs 78-95: the reference gas price is read and the transaction
\* data is built.
TransferGasPrice(ok) ==
    /\ xfer.pc = "gas_price"
    /\ xfer' = IF ok
               THEN [xfer EXCEPT !.pc = "built",
                                 !.net = Append(@, "get_reference_gas_price")]
               ELSE TransferReturn(
                        [xfer EXCEPT
                            !.net = Append(@, "get_reference_gas_price")],
                        Err("get_reference_gas_price"))
    /\ TransferFrame

\* transfer.rs 97-123: the simulation.
TransferDryRun(outcome) ==
    /\ xfer.pc = "built"
    /\ xfer.dry_run
    /\ xfer' = TransferReturn(
                   [xfer EXCEPT !.net = Append(@, "dry_run_transaction_block")],
                   CASE outcome = "rpc_error" ->
                            Err("Transaction simulation failed")
                     [] outcome = "failure" ->
                            Err("Simulation was not successful")
                     [] OTHER -> Ok("Transaction Simulation Summary"))
    /\ TransferFrame

\* A last step that signs and submits whatever dry_run is.
TransferExecuteAnyway(ok) ==
    /\ xfer.pc = "built"
    /\ xfer' = TransferReturn(
                   [xfer EXCEPT !.signed = TRUE,
                                !.net = Append(@, "execute_transaction_block")],
                   IF ok THEN Ok("Transaction executed successfully!")
                   ELSE Err("Transaction execution failed"))
    /\ TransferFrame

\* transfer.rs 124-142: the transaction is signed and submitted.
TransferExecute(ok) ==
    /\ xfer.pc = "built"
    /\ ~xfer.dry_run
    /\ xfer' = TransferReturn(
                   [xfer EXCEPT !.signed = TRUE,
                                !.net = Append(@, "execute_transaction_block")],
                   IF ok THEN Ok("Transaction executed successfully!")
                   ELSE Err("Transaction execution failed"))
    /\ TransferFrame

\* The coins get_coins may return.
MaxCoins == 2

CoinBalances ==
    {<<30000000, 0, 0>>, <<50000000, 0, 0>>, <<50000000, 1, 0>>, U64_MAX}

RECURSIVE SeqsUpTo(_, _)
SeqsUpTo(S, n) ==
    IF n = 0 THEN {<<>>}
    ELSE SeqsUpTo(S, n - 1)
           \cup {Append(q, e) : q \in {r \in SeqsUpTo(S, n - 1) :
                                          Len(r) = n - 1}, e \in S}

CoinLists == SeqsUpTo(CoinBalances, MaxCoins)

TransferNext ==
    \/ \E amount_json \in AmountValues, to_ok \in BOOLEAN,
          dry_run \in BOOLEAN, wraps \in BOOLEAN :
          TransferCall(amount_json, to_ok, dry_run, wraps)
    \/ \E coins \in CoinLists, wraps \in BOOLEAN :
          TransferGetCoins(coins, wraps)
    \/ \E ok \in BOOLEAN : TransferGasPrice(ok)
    \/ \E outcome \in {"rpc_error", "failure", "success"} :
          TransferDryRun(outcome)
    \/ \E ok \in BOOLEAN : TransferExecute(ok)

SpecTransfer == Init /\ [][TransferNext]_vars

\* ------------------------------------------------------------------------
\* Properties of the vault.
\* ------------------------------------------------------------------------
\* The password a record was sealed with.
PasswordOf(w) == w.encrypted_private_key.hex_of.aes_key.pbkdf2

\* The records of ws without those called name, order kept.
Without(ws, name) == SelectSeq(ws, LAMBDA w : w.name # name)

\* The records a complete backing file holds.
FileRecords == IF file[1] = "json" THEN from_json(file[2]) ELSE <<>>

InFile(w) == \E i \in 1..Len(FileRecords) : FileRecords[i] = w

InvalidPassword == Err("Invalid password")

DuplicateName == Err("Wallet with name already exists")

\* C1: a key added under a name with a password is returned exactly by
\* decrypt with that name and password, for as long as the record is
\* held, whatever was added or removed under other names since.
RoundTrip ==
    open => \A c \in creds :
                decrypt_private_key(wallets, c[1], c[3]) = Ok(c[2])

RoundTripWitness ==
    /\ last.op = "decrypt" /\ last.res.ok
    /\ <<last.name, last.res.val, last.pw>> \in creds
    /\ last.res.val = Key0x
    /\ last.pos = 2

\* C2: decrypt with a password other than the one of the add fails with
\* the invalid-password error and returns no plaintext; the outcome is a
\* function of the vault and the arguments.
WrongPassword ==
    /\ open => \A c \in creds : \A p \in Passwords :
                  p # c[3] =>
                    decrypt_private_key(wallets, c[1], p) = InvalidPassword
    /\ (last.op = "decrypt" /\ last.pos # 0
          /\ PasswordOf(wallets[last.pos]) # last.pw)
       => last.res = InvalidPassword

WrongPasswordWitness ==
    /\ last.op = "decrypt" /\ last.res = InvalidPassword
    /\ \E c \in creds : c[1] = last.name /\ c[3] # last.pw

\* C3: add under a name the vault holds fails with the duplicate-name
\* error, keeps the records and does not touch the file.
DuplicateAdd ==
    [][(last'.op = "add" /\ open /\ HasName(wallets, last'.name))
        => /\ last'.res = DuplicateName
           /\ wallets' = wallets
           /\ file' = file
           /\ ~last'.wrote]_vars

DuplicateAddWitness ==
    /\ last.op = "add" /\ last.res = DuplicateName
    /\ last.pos = 2 /\ Len(wallets) = 2

\* C4: remove with a wrong password fails, keeps the records and does not
\* write; remove with the right password deletes that record only, keeps
\* the order of the others, and has rewritten the file when it returns Ok.
RemovalProof ==
    [][(last'.op = "remove" /\ open /\ HasName(wallets, last'.name))
        => IF PasswordOf(wallets[Position(wallets, last'.name)]) = last'.pw
           THEN /\ wallets' = Without(wallets, last'.name)
                /\ Len(wallets') = Len(wallets) - 1
                /\ last'.wrote
                /\ last'.res.ok => file' = FileJson(to_json(wallets'))
           ELSE /\ ~last'.res.ok
                /\ wallets' = wallets
                /\ file' = file
                /\ ~last'.wrote]_vars

RemovalProofWitness ==
    /\ last.op = "remove" /\ last.res.ok /\ last.pos = 1
    /\ Len(wallets) = 2
    /\ file = FileJson(to_json(wallets))

\* C5: when add or remove has returned Ok, the file holds the records of
\* the store, and a store opened from it has the same records in the same
\* order.
Durable ==
    (last.op \in {"add", "remove"} /\ last.res.ok)
       => /\ file = FileJson(to_json(wallets))
          /\ new(file, "ok") = Ok(wallets)

DurableWitness ==
    /\ last.op = "remove" /\ last.res.ok
    /\ Len(wallets) = 1
    /\ new(file, "ok") = Ok(wallets)

\* C6: a record whose add returned an error is never in the backing file.
AddAllOrNothing == \A w \in failedAdds : ~InFile(w)

\* C7: no two records of the store have the same name.
NameUnique ==
    \A i, j \in 1..Len(wallets) :
        i # j => wallets[i].name # wallets[j].name

NameUniqueWitness ==
    /\ Len(wallets) = 2
    /\ wallets[1].name = "a" /\ wallets[2].name = "A"
    /\ last.op = "add" /\ last.res = DuplicateName

\* ------------------------------------------------------------------------
\* Properties of the interactive run.
\* ------------------------------------------------------------------------
\* run_cli has returned r to main (not left by a panic).
ReturnedToMain ==
    \/ pc \in {"returned", "grace"}
    \/ pc = "exited" /\ exitCode \in {0, 1}

Spawned == child # "none"

RetryCeiling ==
    /\ attempts <= MAX_RETRIES
    /\ (pc = "connect_done" /\ ~client) => attempts = MAX_RETRIES
    /\ (ReturnedToMain /\ Spawned /\ ~client)
          => (attempts = MAX_RETRIES /\ result = ConnectTimeout)
    /\ result = ConnectTimeout => (attempts = MAX_RETRIES /\ ~client)

RetryCeilingWitness ==
    /\ pc = "grace" /\ result = ConnectTimeout
    /\ attempts = MAX_RETRIES /\ sleeps = MAX_RETRIES - 1 /\ ~client

\* C11: a successful connect ends the retry loop: it is attempt number
\* (failed attempts + 1), every failed attempt before it was followed by one
\* sleep, no attempt and no sleep follows it, the client stays, and the
\* timeout error is returned only after MAX_RETRIES failed attempts.
RetryShortCircuit ==
    [][/\ client' => (attempts' = retry' + 1 /\ sleeps' = retry')
       /\ client => (client' /\ attempts' = attempts /\ sleeps' = sleeps)
       /\ (client' /\ ~client) => pc' = "connect_done"
       /\ result' = ConnectTimeout => (retry' = MAX_RETRIES /\ ~client')]_vars

RetryShortCircuitWitness ==
    /\ pc = "loop" /\ client
    /\ attempts = 3 /\ sleeps = 2 /\ retry = 2

\* ------------------------------------------------------------------------
\* Properties of the TUI loop and the channel.
\* ------------------------------------------------------------------------
\* The messages of s that task p sent.
FromTask(s, p) == SelectSeq(s, LAMBDA m : m.from = p)

\* What task p has sent so far, in the order of its sends.
SentBy(p) ==
    [i \in 1..tasks[p].sent |-> Msg(p, i, tasks[p].script[i])]

\* The message of the user in the transcript.
YouSaid(t) == ChatMessage("You", <<t>>)

\* C12: with one send task, the in-progress response is the fragments
\* received so far in the order of the response; when the end of the
\* stream has been received the transcript holds the request and one AI
\* message made of all fragments; the end marker is in no content.
StreamOrder ==
    /\ (Len(tasks) = 1 /\ RxAlive) =>
          IF Len(rcvd) < Len(tasks[1].script)
          THEN /\ app.current_ai_message
                    = SubSeq(tasks[1].script, 1, Len(rcvd))
               /\ app.is_streaming
               /\ \E t \in UserTexts : app.messages = <<YouSaid(t)>>
          ELSE /\ app.current_ai_message = <<>>
               /\ ~app.is_streaming
               /\ \E t \in UserTexts :
                     app.messages =
                       <<YouSaid(t),
                         ChatMessage("AI",
                             SubSeq(tasks[1].script, 1,
                                    Len(tasks[1].script) - 1))>>
    /\ \A i \in 1..Len(app.current_ai_message) :
          app.current_ai_message[i] # STREAM_END
    /\ \A k \in 1..Len(app.messages) :
          \A i \in 1..Len(app.messages[k].content) :
             app.messages[k].content[i] # STREAM_END

StreamOrderWitness ==
    /\ pc = "loop" /\ Len(tasks) = 1
    /\ app.messages = <<YouSaid("hi"), ChatMessage("AI", <<"a", "b", "c">>)>>
    /\ ~app.is_streaming

\* C13: what the loop has received from a task is, in order, the first
\* messages that task sent, whatever the other tasks sent in between.
PerSenderFifo ==
    \A p \in 1..Len(tasks) :
        FromTask(rcvd, p) = SubSeq(SentBy(p), 1, Len(FromTask(rcvd, p)))

PerSenderFifoWitness ==
    /\ Len(tasks) = 2 /\ Len(rcvd) = 6
    /\ rcvd[1].from = 1 /\ rcvd[2].from = 2 /\ rcvd[3].from = 1
    /\ rcvd[6].from = 1

\* C14: the channel never holds more than CHANNEL_CAPACITY messages, a
\* task sends only when there is room, and while the receiver lives the
\* messages received from a task followed by its messages in the channel
\* are exactly what the task sent: nothing dropped, nothing twice.
Backpressure ==
    [][/\ Len(chan') <= CHANNEL_CAPACITY
       /\ (\E p \in 1..Len(tasks) : tasks'[p].sent # tasks[p].sent)
             => Len(chan) < CHANNEL_CAPACITY
       /\ RxAlive' =>
             \A p \in 1..Len(tasks') :
                FromTask(rcvd', p) \o FromTask(chan', p) = SentBy(p)']_vars

BackpressureWitness ==
    /\ Len(chan) = CHANNEL_CAPACITY
    /\ Len(tasks) = 1 /\ tasks[1].sent = CHANNEL_CAPACITY + 1
    /\ tasks[1].sent < Len(tasks[1].script)
    /\ Len(rcvd) = 1

\* C15: once handle_input has returned is_running = false, the loop ends
\* and run_cli returns, whatever the send tasks do.
QuitReturns == (pc = "drain" /\ ~running) ~> (pc = "returned")

QuitReturnsWitness ==
    /\ pc = "drain" /\ ~running
    /\ Len(chan) = CHANNEL_CAPACITY
    /\ Len(tasks) = 1 /\ tasks[1].sent < Len(tasks[1].script)

\* The text that was encrypted into record w.
PlaintextOf(w) == from_utf8(w.encrypted_private_key.hex_of.body).val

\* Occurrences of x in the sequence s.
Count(s, x) == Len(SelectSeq(s, LAMBDA e : e = x))

\* C16: the agent process is spawned at most once per run and only with the
\* text decrypted from the selected record in its environment; a run on an
\* empty vault or with a wrong password fails and has spawned nothing.
SpawnAfterDecrypt ==
    /\ Count(log, "spawn") <= 1
    /\ Spawned <=> Count(log, "spawn") = 1
    /\ Spawned => /\ sel \in 1..Len(wallets)
                  /\ secret = <<PlaintextOf(wallets[sel])>>
                  /\ childEnv = secret
    /\ wallets = <<>> =>
          /\ ~Spawned
          /\ pc # "start" => result = Err("No wallets found")
    /\ result = InvalidPassword => ~Spawned /\ secret = <<>>

SpawnAfterDecryptWitness ==
    /\ Spawned /\ pc = "loop"
    /\ sel = 2 /\ childEnv = <<KeyBech>>

\* The steps main takes on an error of run_cli, after the drop of the guard.
FatalSteps(restored) == <<"return", restored, "print", "grace", "exit">>

\* The log up to the return of run_cli.
BeforeReturn == IF Spawned THEN <<"spawn", "kill">> ELSE <<>>

IsPrefix(s, t) == Len(s) <= Len(t) /\ SubSeq(t, 1, Len(s)) = s

SecretByEnvOnly ==
    /\ secret # <<>> => ownEnv # secret
    /\ \A i \in 1..Len(childArgs) : <<childArgs[i]>> # secret
    /\ Spawned => (childEnv = secret /\ childArgs = AgentArgs)
    /\ mcp.pc \in {"removed", "built", "serving", "done"} =>
          (mcp.env = <<>> /\ mcp.key = mcp.startEnv /\ mcp.key # <<>>)
    /\ mcp.served => mcp.pc \in {"serving", "done"}
    /\ (mcp.startEnv = <<>> /\ mcp.pc # "none") =>
          (mcp.pc \in {"start", "failed"} /\ mcp.key = <<>>)

SecretByEnvOnlyWitness ==
    /\ Spawned /\ sel = 2 /\ childEnv = <<KeyBech>> /\ ownEnv = <<KeyHex>>
    /\ mcp.pc = "serving" /\ mcp.served
    /\ mcp.key = <<KeyBech>> /\ mcp.env = <<>>

\* ------------------------------------------------------------------------
\* Properties of the key validation.
\* ------------------------------------------------------------------------
\* C19: an add succeeds only with a well-formed key: 32 bytes in hex with
\* at most one leading 0x, or a bech32 text of the scheme byte 0x00 and 32
\* bytes; with every other key it fails, with an error of the validation
\* when the name is new, and leaves the records and the file as they were.
KeyValidation ==
    [][LET k == last'.key
           HexOf32Bytes(t) ==
               /\ Len(t) = 2 * SECRET_KEY_LENGTH
               /\ \A i \in 1..Len(t) : HexVal(t[i]) # -1
           WellFormedHex ==
               \/ HexOf32Bytes(k)
               \/ /\ starts_with(k, <<"0", "x">>)
                  /\ HexOf32Bytes(SubSeq(k, 3, Len(k)))
           WellFormedBech32 ==
               /\ Bech32Decode(k).ok
               /\ from_base32(Bech32Decode(k).val[2]).ok
               /\ Len(from_base32(Bech32Decode(k).val[2]).val)
                     = SECRET_KEY_LENGTH + 1
               /\ from_base32(Bech32Decode(k).val[2]).val[1] = ED25519_FLAG
           WellFormed == WellFormedHex \/ WellFormedBech32
           ValidationErrors ==
               {Err("Invalid bech32 private key"),
                Err("Failed to convert from base32"),
                Err("Invalid sui private key format"),
                Err("Invalid private key hex"),
                Err("Invalid private key length")}
       IN  last'.op = "add" =>
             /\ last'.res.ok => WellFormed
             /\ ~WellFormed =>
                   /\ ~last'.res.ok
                   /\ last'.pos = 0 => last'.res \in ValidationErrors
                   /\ wallets' = wallets /\ file' = file]_vars

\* ------------------------------------------------------------------------
\* Properties of the salts and nonces.
\* ------------------------------------------------------------------------
\* C20: no two records of the vault have the same salt or the same nonce,
\* and a record does not have the salt or the nonce of a record that was
\* removed under its name before.
Freshness ==
    /\ \A i, j \in 1..Len(wallets) :
          i # j => /\ wallets[i].salt # wallets[j].salt
                   /\ wallets[i].nonce # wallets[j].nonce
    /\ \A i \in 1..Len(wallets) :
          \A w \in removed :
             w.name = wallets[i].name => /\ wallets[i].salt # w.salt
                                         /\ wallets[i].nonce # w.nonce

FreshnessWitness ==
    /\ Len(wallets) = 2
    /\ \E w \in removed : w.name = wallets[2].name

\* ------------------------------------------------------------------------
\* Properties of the calls with a name the vault does not hold.
\* ------------------------------------------------------------------------
\* C23: decrypt and remove with a name that no record has fail with the
\* not-found error, whatever the password, and leave the records and the
\* file as they were; save is not called.
AbsentName ==
    [][(last'.op \in {"decrypt", "remove"} /\ ~HasName(wallets, last'.name))
        => /\ last'.res = Err("Wallet not found")
           /\ last'.pos = 0
           /\ ~last'.wrote
           /\ wallets' = wallets
           /\ file' = file]_vars

AbsentNameWitness ==
    /\ last.op = "remove" /\ last.res = Err("Wallet not found")
    /\ Len(wallets) = 1 /\ wallets[1].name # last.name
    /\ last.pw = PasswordOf(wallets[1])
    /\ file = FileJson(to_json(wallets))

\* C26: an add or a remove that returns an error leaves the records of the
\* store as they were before the call.
UnchangedOnError ==
    [][(last'.op \in {"add", "remove"} /\ ~last'.res.ok)
        => wallets' = wallets]_vars

\* ------------------------------------------------------------------------
\* Properties of one tick of the TUI loop.
\* ------------------------------------------------------------------------
\* C24: a tick that gets past its input step drains, with or without an
\* input event, and the drain ends only on an empty channel: when the loop
\* leaves the drain every message sent so far has been received.
DrainsAll ==
    [][/\ (pc = "loop" /\ pc' # "loop") => pc' \in {"drain", "dropping"}
       /\ (pc = "drain" /\ pc' # "drain") =>
             /\ chan = <<>> /\ chan' = <<>>
             /\ rcvd' = rcvd
             /\ \A p \in 1..Len(tasks) : FromTask(rcvd, p) = SentBy(p)]_vars

DrainsAllWitness ==
    /\ pc = "loop" /\ chan = <<>>
    /\ Len(tasks) = 2
    /\ FromTask(rcvd, 1) = SentBy(1) /\ FromTask(rcvd, 2) = SentBy(2)
    /\ tasks[1].sent = 2 /\ tasks[2].sent = 1
    /\ Len(rcvd) = 3

\* The messages of the user in the transcript.
UserMessages == SelectSeq(app.messages, LAMBDA m : m.sender = "You")

\* C25: a tick with a submitted text appends one message of the user,
\* starts streaming and starts one send task, before anything of that task
\* is received; a tick without one starts no task. So while App lives
\* there are as many send tasks as messages of the user.
SubmitStartsOne ==
    [][/\ Len(tasks') \in {Len(tasks), Len(tasks) + 1}
       /\ Len(tasks') = Len(tasks) + 1 =>
             /\ pc = "loop" /\ pc' = "drain"
             /\ \E t \in UserTexts :
                   app'.messages = Append(app.messages, YouSaid(t))
             /\ app'.is_streaming /\ app'.current_ai_message = <<>>
             /\ tasks'[Len(tasks')].sent = 0
             /\ SubSeq(tasks', 1, Len(tasks)) = tasks
             /\ chan' = chan /\ rcvd' = rcvd
             /\ FromTask(rcvd', Len(tasks')) = <<>>
       /\ pc' \in {"loop", "drain", "cleanup"} =>
             Len(tasks') = Len(SelectSeq(app'.messages,
                                         LAMBDA m : m.sender = "You"))
       /\ \A i \in 1..Len(rcvd') : rcvd'[i].from <= Len(tasks')]_vars

SubmitStartsOneWitness ==
    /\ pc = "drain" /\ Len(tasks) = 2 /\ tasks[2].sent = 0
    /\ Len(UserMessages) = 2
    /\ app.is_streaming /\ app.current_ai_message = <<>>
    /\ Len(app.messages) = 3

\* ------------------------------------------------------------------------
\* Properties of the import command.
\* ------------------------------------------------------------------------
\* C21: when the confirmation typed at the import differs from the
\* password, the command shows a prompt again in the same run, and no
\* record is added.
RepromptOnMismatch ==
    [][(/\ imp.pc = "confirm"
        /\ imp'.confirm \in Passwords
        /\ imp'.confirm # imp.password)
          => /\ imp'.pc \in {"key", "password", "confirm"}
             /\ imp'.prompts = imp.prompts + 1
             /\ wallets' = wallets /\ file' = file]_vars

\* The part of C21 that the command keeps: a mismatch adds no record.
MismatchAddsNothing ==
    [][(/\ imp.pc = "confirm"
        /\ imp'.confirm \in Passwords
        /\ imp'.confirm # imp.password)
          => wallets' = wallets /\ file' = file /\ last' = last]_vars

\* ------------------------------------------------------------------------
\* Properties of execute_transfer.
\* ------------------------------------------------------------------------
Requested(x, call) == \E i \in 1..Len(x.net) : x.net[i] = call

\* C22: a call with dry_run = true never signs and never submits; a
\* transaction is submitted only by a call with dry_run = false whose
\* balance check passed, and a dry run ends with a summary or an error.
DryRunNeverExecutes ==
    /\ xfer.dry_run =>
          /\ ~xfer.signed
          /\ ~Requested(xfer, "execute_transaction_block")
          /\ xfer.pc = "done" =>
                (xfer.result.ok =>
                   xfer.net = <<"get_coins", "get_reference_gas_price",
                                "dry_run_transaction_block">>)
    /\ xfer.signed <=> Requested(xfer, "execute_transaction_block")
    /\ Requested(xfer, "execute_transaction_block") =>
          /\ ~xfer.dry_run
          /\ xfer.amount_mist.ok /\ xfer.to_ok
          /\ xfer.coins # <<>>
          /\ ~BigLess(xfer.total_balance, xfer.required_balance)
          /\ ~Requested(xfer, "dry_run_transaction_block")

DryRunNeverExecutesWitness ==
    /\ xfer.dry_run /\ xfer.pc = "done" /\ xfer.result.ok
    /\ xfer.net = <<"get_coins", "get_reference_gas_price",
                    "dry_run_transaction_block">>
    /\ ~xfer.signed
    /\ xfer.amount = JsonString(<<"1", ".", "5">>)
    /\ xfer.selected_coins = 2

\* The sum of the first n balances, in the natural numbers.
RECURSIVE PrefixSum(_, _)
PrefixSum(coins, n) ==
    IF n = 0 THEN Zero ELSE BigAdd(PrefixSum(coins, n - 1), coins[n])

\* The balance check was passed.
Funded(x) == x.pc \in {"gas_price", "built"} \/ Len(x.net) >= 2

\* C27: past the balance check the selected coins are the shortest prefix
\* of the coin list whose balances sum to at least amount_mist + 50,000,000,
\* no sum having overflowed 64 bits; otherwise the call fails with the
\* insufficient-balance error, or the no-coins error on an empty list.
TransferFunding ==
    /\ xfer.result # Panicked
    /\ Requested(xfer, "get_coins") =>
          IF Funded(xfer)
          THEN /\ xfer.selected_coins \in 1..Len(xfer.coins)
               /\ xfer.required_balance
                    = BigAdd(xfer.amount_mist.val, gas_budget)
               /\ xfer.total_balance
                    = PrefixSum(xfer.coins, xfer.selected_coins)
               /\ ~BigLess(xfer.total_balance, xfer.required_balance)
               /\ BigLess(PrefixSum(xfer.coins, xfer.selected_coins - 1),
                          xfer.required_balance)
          ELSE /\ xfer.pc = "done"
               /\ xfer.result.err
                    = IF xfer.coins = <<>>
                      THEN "No SUI coins found for the address."
                      ELSE "Insufficient SUI balance."
               /\ BigLess(PrefixSum(xfer.coins, Len(xfer.coins)),
                          BigAdd(xfer.amount_mist.val, gas_budget))

\* C28: a non-negative decimal amount below 2^64 MIST gives the same
\* amount as a JSON number and as a JSON string of the same text: SUI
\* scaled by 10^9 when written with a point, MIST when written without;
\* an amount that is not converted is rejected before any request to the
\* network, and an amount of another JSON type is not converted.
SameAmountForBoth ==
    /\ (/\ xfer.pc # "none"
        /\ xfer.amount.type \in {"Number", "String"}
        /\ IsJsonNumber(xfer.amount.text)
        /\ xfer.amount.text[1] # "-"
        /\ FitsU64(DigitsToBig(
               parse_f64(xfer.amount.text).val.int
                 \o (IF contains_point(xfer.amount.text)
                     THEN Rep("0", 9) ELSE <<>>))))
          => /\ xfer.amount_mist
                  = AmountMistOf[JsonNumber(xfer.amount.text)]
             /\ xfer.amount_mist
                  = AmountMistOf[JsonString(xfer.amount.text)]
             /\ xfer.amount_mist = Ok(NumberToMistByPoint(xfer.amount.text))
    /\ (xfer.pc # "none" /\ ~xfer.amount_mist.ok)
          => xfer.pc = "done" /\ xfer.net = <<>> /\ xfer.result = xfer.amount_mist
    /\ (xfer.pc # "none" /\ xfer.amount.type \notin {"Number", "String"})
          => ~xfer.amount_mist.ok

====
